---- MODULE Spec2Model ----
(***************************************************************************)
(* Input normalisation core of StemCenterAnalytics.                        *)
(*                                                                         *)
(* Two packages live side by side in the repository:                       *)
(*   stem_center_analytics  (AliasTable, parse_user_input, parse_course)   *)
(*   stem_analytics         (ParserDict, _parse_input, parse_time_range,   *)
(*                           parse_full_course_name)                       *)
(* Both are modelled.  A Python string is a sequence of one-character      *)
(* strings, so that splitting, stripping, case folding and searching are   *)
(* computed rather than assumed.                                           *)
(***************************************************************************)
EXTENDS Integers, Sequences, FiniteSets, TLC

VARIABLES table, db, call, result

vars == <<table, db, call, result>>

(***************************************************************************)
(* Bounds of the explored inputs.                                          *)
(***************************************************************************)
MaxRows == 2

MaxLen == 5

MaxItems == 2

MaxCourses == 2

(***************************************************************************)
(* Characters and the str methods the parsers use.                         *)
(***************************************************************************)
LowerLetters == <<"a","b","c","d","e","f","g","h","i","j","k","l","m",
                  "n","o","p","q","r","s","t","u","v","w","x","y","z">>

UpperLetters == <<"A","B","C","D","E","F","G","H","I","J","K","L","M",
                  "N","O","P","Q","R","S","T","U","V","W","X","Y","Z">>

DigitChars == <<"0","1","2","3","4","5","6","7","8","9">>

Range(f) == {f[i] : i \in DOMAIN f}

IsLower(c) == c \in Range(LowerLetters)

IsUpper(c) == c \in Range(UpperLetters)

IsDigit(c) == c \in Range(DigitChars)

IsSpace(c) == c \in {" ", "\t"}

IsAlnum(c) == IsLower(c) \/ IsUpper(c) \/ IsDigit(c)

IndexIn(f, c) == CHOOSE i \in DOMAIN f : f[i] = c

DigitVal(c) == IndexIn(DigitChars, c) - 1

char_lower(c) == IF IsUpper(c) THEN LowerLetters[IndexIn(UpperLetters, c)] ELSE c

char_upper(c) == IF IsLower(c) THEN UpperLetters[IndexIn(LowerLetters, c)] ELSE c

str_lower(s) == [i \in DOMAIN s |-> char_lower(s[i])]

str_upper(s) == [i \in DOMAIN s |-> char_upper(s[i])]

str_capitalize(s) ==
    [i \in DOMAIN s |-> IF i = 1 THEN char_upper(s[i]) ELSE char_lower(s[i])]

str_isalnum(s) == s # <<>> /\ \A i \in DOMAIN s : IsAlnum(s[i])

str_isdigit(s) == s # <<>> /\ \A i \in DOMAIN s : IsDigit(s[i])

str_count(s, c) == Cardinality({i \in DOMAIN s : s[i] = c})

str_remove(s, c) == SelectSeq(s, LAMBDA x : x # c)

StartsAt(s, sub, i) ==
    /\ i + Len(sub) - 1 <= Len(s)
    /\ \A k \in 1..Len(sub) : s[i + k - 1] = sub[k]

\* 1-based position of the first occurrence of sub in s, 0 when absent
str_find(s, sub) ==
    LET hits == {i \in 1..(Len(s) + 1) : StartsAt(s, sub, i)}
    IN  IF hits = {} THEN 0 ELSE CHOOSE i \in hits : \A j \in hits : i <= j

\* 1-based position of the last occurrence of c in s[1..hi], 0 when absent
str_rfind(s, c, hi) ==
    LET hits == {i \in 1..hi : i <= Len(s) /\ s[i] = c}
    IN  IF hits = {} THEN 0 ELSE CHOOSE i \in hits : \A j \in hits : j <= i

str_contains(s, sub) == str_find(s, sub) # 0

str_endswith(s, sub) ==
    Len(sub) <= Len(s) /\ StartsAt(s, sub, Len(s) - Len(sub) + 1)

\* s.partition(sep): <<before, after>>; after is empty when sep is absent
str_partition(s, sep) ==
    LET p == str_find(s, sep)
    IN  IF p = 0 THEN <<s, <<>>>>
        ELSE <<SubSeq(s, 1, p - 1), SubSeq(s, p + Len(sep), Len(s))>>

RECURSIVE SplitWsAcc(_, _, _)
SplitWsAcc(s, cur, acc) ==
    IF s = <<>> THEN (IF cur = <<>> THEN acc ELSE Append(acc, cur))
    ELSE IF IsSpace(Head(s))
         THEN SplitWsAcc(Tail(s), <<>>, IF cur = <<>> THEN acc ELSE Append(acc, cur))
         ELSE SplitWsAcc(Tail(s), Append(cur, Head(s)), acc)

\* s.split(): the whitespace separated words of s
str_split(s) == SplitWsAcc(s, <<>>, <<>>)

RECURSIVE SplitOnAcc(_, _, _, _)
SplitOnAcc(s, c, cur, acc) ==
    IF s = <<>> THEN Append(acc, cur)
    ELSE IF Head(s) = c
         THEN SplitOnAcc(Tail(s), c, <<>>, Append(acc, cur))
         ELSE SplitOnAcc(Tail(s), c, Append(cur, Head(s)), acc)

\* s.split(c): the segments between occurrences of c, empty ones kept
str_split_on(s, c) == SplitOnAcc(s, c, <<>>, <<>>)

RECURSIVE str_join(_, _)
str_join(sep, parts) ==
    IF parts = <<>> THEN <<>>
    ELSE IF Len(parts) = 1 THEN parts[1]
    ELSE parts[1] \o sep \o str_join(sep, Tail(parts))

RECURSIVE LStrip(_, _)
LStrip(s, c) == IF s # <<>> /\ Head(s) = c THEN LStrip(Tail(s), c) ELSE s

RECURSIVE RStrip(_, _)
RStrip(s, c) ==
    IF s # <<>> /\ s[Len(s)] = c THEN RStrip(SubSeq(s, 1, Len(s) - 1), c) ELSE s

\* s.strip(' '): only the space character is removed
str_strip(s) == RStrip(LStrip(s, " "), " ")

normalize_spaces(s) == str_join(<<" ">>, str_split(s))

Dash == <<" ", "-", " ">>

(***************************************************************************)
(* Outcome of one call: a returned value or a raised exception.            *)
(* Values are carried as a sequence of strings: one element for a scalar,  *)
(* two for a pair, any number for a list.                                  *)
(***************************************************************************)
NoResult == [kind |-> "none", exc |-> "", msg |-> "", shape |-> "none", value |-> <<>>]

Return(shape, value) ==
    [kind |-> "return", exc |-> "", msg |-> "", shape |-> shape, value |-> value]

Raise(exc, msg) ==
    [kind |-> "raise", exc |-> exc, msg |-> msg, shape |-> "none", value |-> <<>>]

Raised(r) == r.kind = "raise"

Returned(r) == r.kind = "return"

\* InvalidInputError(ValueError) and ParsingError(ValueError) are the two
\* packages' parsing error classes
IsParsingError(r) == Raised(r) /\ r.exc \in {"InvalidInputError", "ParsingError"}

(***************************************************************************)
(* AliasTable (stem_center_analytics) and ParserDict (stem_analytics).     *)
(***************************************************************************)
ValidEntry(entry) == str_isalnum(str_remove(str_remove(entry, "_"), " "))

\* the keys in the order of their first occurrence (computed by halves: the
\* tables of years and quarters have hundreds of rows)
RECURSIVE OrderedKeys(_)
OrderedKeys(args) ==
    IF args = <<>> THEN <<>>
    ELSE IF Len(args) = 1 THEN <<args[1].name>>
    ELSE LET half  == Len(args) \div 2
             front == OrderedKeys(SubSeq(args, 1, half))
             back  == OrderedKeys(SubSeq(args, half + 1, Len(args)))
         IN  front \o SelectSeq(back, LAMBDA key : key \notin Range(front))

\* collections.OrderedDict(args): keys keep the position of their first
\* occurrence, a repeated key keeps the value given last
OrderedDict(args) ==
    LET keys == OrderedKeys(args)
        last(k) == CHOOSE i \in DOMAIN args :
                      /\ args[i].name = k
                      /\ \A j \in DOMAIN args : args[j].name = k => j <= i
    IN  [names |-> keys,
         aliases |-> [k \in Range(keys) |-> args[last(k)].aliases]]

AliasTable_init(args) ==
    IF \E i \in DOMAIN args :
          \E entry \in {args[i].name} \cup args[i].aliases : ~ValidEntry(entry)
    THEN [ok |-> FALSE, table |-> OrderedDict(<<>>)]
    ELSE [ok |-> TRUE, table |-> OrderedDict(args)]

(***************************************************************************)
(* The constructors on arbitrary arguments.  An argument is a record: its  *)
(* kind ("tuple", "list" or "int"), its length, whether its first item is  *)
(* a string and that string, the type of its second item ("set",           *)
(* "frozenset", "list"), the strings in it, and whether that item also     *)
(* holds something that is no string.                                      *)
(***************************************************************************)
\* the position of the first argument with the defect, 0 when there is none
FirstArg(args, Defect(_)) ==
    LET hits == {i \in DOMAIN args : Defect(args[i])}
    IN  IF hits = {} THEN 0 ELSE CHOOSE i \in hits : \A j \in hits : i <= j

AsRows(args) == [i \in DOMAIN args |-> [name |-> args[i].name, aliases |-> args[i].aliases]]

\* len(pair) of an int
Unsized(pair) == pair.kind = "int"

\* AliasTable.__init__, first test on a pair
NotStrSetTuple(pair) ==
    \/ pair.len # 2
    \/ pair.kind # "tuple"
    \/ ~pair.name_is_str
    \/ pair.aliases_kind # "set"

\* AliasTable.__init__, second test on a pair
InvalidEntries(pair) ==
    \/ pair.has_non_str
    \/ \E entry \in {pair.name} \cup pair.aliases : ~ValidEntry(entry)

AliasTable_construct(args) ==
    LET bad == FirstArg(args, LAMBDA pair : Unsized(pair) \/ NotStrSetTuple(pair)
                                                \/ InvalidEntries(pair))
    IN  IF bad = 0 THEN Return("table", <<OrderedDict(AsRows(args))>>)
        ELSE IF Unsized(args[bad])
        THEN Raise("TypeError", "object of type 'int' has no len()")
        ELSE IF NotStrSetTuple(args[bad])
        THEN Raise("ValueError", "ALL arguments must be a two-item tuple")
        ELSE Raise("ValueError", "can only contain letters, digits, spaces, and underscores")

\* ParserDict.__init__, first test on a pair
NotPairWithSet(pair) == pair.len # 2 \/ pair.aliases_kind # "set"

\* ParserDict.__init__, the tests on the key
InvalidKey(pair) == ~pair.name_is_str \/ ~ValidEntry(pair.name)

\* ParserDict.__init__, the test on the strings of the set
InvalidSetStrings(pair) ==
    pair.has_non_str \/ \E entry \in pair.aliases : ~ValidEntry(entry)

ParserDict_construct(args) ==
    LET bad == FirstArg(args, LAMBDA pair : Unsized(pair) \/ NotPairWithSet(pair)
                                                \/ InvalidKey(pair) \/ InvalidSetStrings(pair))
    IN  IF bad = 0 THEN Return("table", <<OrderedDict(AsRows(args))>>)
        ELSE IF Unsized(args[bad])
        THEN Raise("TypeError", "object of type 'int' has no len()")
        ELSE IF NotPairWithSet(args[bad])
        THEN Raise("ValueError", "all arguments must be of form Tuple[str, set]")
        ELSE Raise("ValueError", "can only contain letters, digits, spaces, and underscores")

\* the latest declaring row instead of the earliest
LastRowWith(t, alias) ==
    LET hits == {i \in DOMAIN t.names : alias \in t.aliases[t.names[i]]}
    IN  IF hits = {} THEN 0 ELSE CHOOSE i \in hits : \A j \in hits : j <= i

\* for token in keys: if alias in mapping[token]: return token
\* (the position of the first such token, 0 when the loop runs out)
FirstRowWith(t, alias) ==
    LET hits == {i \in DOMAIN t.names : alias \in t.aliases[t.names[i]]}
    IN  IF hits = {} THEN 0 ELSE CHOOSE i \in hits : \A j \in hits : i <= j

lookup_by_alias(t, alias, raise_if_not_found) ==
    LET row == FirstRowWith(t, alias)
    IN  IF row # 0 THEN Return("scalar", <<t.names[row]>>)
        ELSE IF ~raise_if_not_found THEN Return("none", <<>>)
        ELSE Raise("InvalidInputError", "cannot be recognized as one of")

map_to_token(t, string, raise_if_not_found) ==
    LET row == FirstRowWith(t, string)
    IN  IF row # 0 THEN Return("scalar", <<t.names[row]>>)
        ELSE IF ~raise_if_not_found THEN Return("scalar", <<<<>>>>)
        ELSE Raise("ParsingError", "cannot be recognized as one of the following")

RECURSIVE DigitsValue(_)
DigitsValue(s) ==
    IF s = <<>> THEN 0
    ELSE 10 * DigitsValue(SubSeq(s, 1, Len(s) - 1)) + DigitVal(s[Len(s)])

\* int(x): an int is taken as is; text is stripped of whitespace and must be
\* an optionally signed run of digits, otherwise ValueError
py_int(x) ==
    IF x.kind = "int" THEN [ok |-> TRUE, val |-> x.n]
    ELSE LET words == str_split(x.text)
             body  == IF Len(words) = 1 THEN words[1] ELSE <<>>
             neg   == body # <<>> /\ Head(body) = "-"
             mag   == IF body # <<>> /\ Head(body) \in {"-", "+"} THEN Tail(body) ELSE body
         IN  IF str_isdigit(mag)
             THEN [ok |-> TRUE, val |-> IF neg THEN 0 - DigitsValue(mag) ELSE DigitsValue(mag)]
             ELSE [ok |-> FALSE, val |-> 0]

\* tuple indexing names[k] with a 0-based k: negative k counts from the end
TupleIndex(names, k) ==
    LET n == Len(names)
    IN  IF 0 <= k /\ k < n THEN [ok |-> TRUE, item |-> names[k + 1]]
        ELSE IF k < 0 /\ 0 - n <= k THEN [ok |-> TRUE, item |-> names[n + k + 1]]
        ELSE [ok |-> FALSE, item |-> <<>>]

lookup_by_ordering(t, ordering, raise_if_not_found) ==
    LET parsed == py_int(ordering)
        found  == IF parsed.ok THEN TupleIndex(t.names, parsed.val - 1)
                  ELSE [ok |-> FALSE, item |-> <<>>]
    IN  IF found.ok THEN Return("scalar", <<found.item>>)
        ELSE IF ~raise_if_not_found THEN Return("none", <<>>)
        ELSE Raise("InvalidInputError", "ordering must fall between 1 and N")

(***************************************************************************)
(* Weekday tables: TIME_UNIT_VALUES.WEEKDAYS (stem_center_analytics) and   *)
(* academic_time_units.weekday (stem_analytics).                           *)
(***************************************************************************)
WEEKDAYS ==
    OrderedDict(<<
        [name |-> <<"M","o","n","d","a","y">>,
         aliases |-> {<<"m">>, <<"m","o">>, <<"m","o","n">>}],
        [name |-> <<"T","u","e","s","d","a","y">>,
         aliases |-> {<<"t">>, <<"t","u">>, <<"t","u","e">>, <<"t","u","e","s">>}],
        [name |-> <<"W","e","d","n","e","s","d","a","y">>,
         aliases |-> {<<"w">>, <<"w","e">>, <<"w","e","d">>}],
        [name |-> <<"T","h","u","r","s","d","a","y">>,
         aliases |-> {<<"r">>, <<"t","h">>, <<"t","h","u">>, <<"t","h","u","r">>, <<"t","h","u","r","s">>}],
        [name |-> <<"F","r","i","d","a","y">>,
         aliases |-> {<<"f">>, <<"f","r">>, <<"f","r","i">>}],
        [name |-> <<"S","a","t","u","r","d","a","y">>,
         aliases |-> {<<"s">>, <<"s","a">>, <<"s","a","t">>}],
        [name |-> <<"S","u","n","d","a","y">>,
         aliases |-> {<<"u">>, <<"s","u">>, <<"s","u","n">>}]
    >>)

weekday ==
    OrderedDict(<<
        [name |-> <<"M","o","n","d","a","y">>,
         aliases |-> {<<"1">>, <<"m">>, <<"m","o">>, <<"m","o","n">>, <<"m","o","n","d","a","y">>}],
        [name |-> <<"T","u","e","s","d","a","y">>,
         aliases |-> {<<"2">>, <<"t">>, <<"t","u">>, <<"t","u","e">>, <<"t","u","e","s">>, <<"t","u","e","s","d","a","y">>}],
        [name |-> <<"W","e","d","n","e","s","d","a","y">>,
         aliases |-> {<<"3">>, <<"w">>, <<"w","e">>, <<"w","e","d">>, <<"w","e","d","n","e","s","d","a","y">>}],
        [name |-> <<"T","h","u","r","s","d","a","y">>,
         aliases |-> {<<"4">>, <<"r">>, <<"t","h">>, <<"t","h","u">>, <<"t","h","u","r">>, <<"t","h","u","r","s">>, <<"t","h","u","r","s","d","a","y">>}],
        [name |-> <<"F","r","i","d","a","y">>,
         aliases |-> {<<"5">>, <<"f">>, <<"f","r">>, <<"f","r","i">>, <<"f","r","i","d","a","y">>}],
        [name |-> <<"S","a","t","u","r","d","a","y">>,
         aliases |-> {<<"6">>, <<"s">>, <<"s","a">>, <<"s","a","t">>, <<"s","a","t","u","r","d","a","y">>}],
        [name |-> <<"S","u","n","d","a","y">>,
         aliases |-> {<<"7">>, <<"u">>, <<"s","u">>, <<"s","u","n">>, <<"s","u","n","d","a","y">>}]
    >>)

(***************************************************************************)
(* Time of day: parse_time (stem_center_analytics) and parse_time_of_day   *)
(* (stem_analytics).  Both lower-case the text, drop its spaces, infer a   *)
(* strptime format from the am/pm suffix and the number of colons, and     *)
(* print the parsed time as HH:MM:SS.                                      *)
(***************************************************************************)
AM == <<"a", "m">>

PM == <<"p", "m">>

\* a strptime numeric field: one or two digits with a value in lo..hi
FieldIn(field, lo, hi) ==
    /\ Len(field) \in {1, 2}
    /\ str_isdigit(field)
    /\ DigitsValue(field) \in lo..hi

\* strptime(time_string, inferred_format) for the formats %I|%H [:%M[:%S]] [%p]
strptime(time_string) ==
    LET is_twelve_hour_time == str_endswith(time_string, AM) \/ str_endswith(time_string, PM)
        colons == str_count(time_string, ":")
        wanted == IF colons = 0 THEN 1 ELSE IF colons = 1 THEN 2 ELSE 3
        body   == IF is_twelve_hour_time
                  THEN SubSeq(time_string, 1, Len(time_string) - 2) ELSE time_string
        fields == str_split_on(body, ":")
        ok     == /\ Len(fields) = wanted
                  /\ IF is_twelve_hour_time THEN FieldIn(fields[1], 1, 12)
                                            ELSE FieldIn(fields[1], 0, 23)
                  /\ wanted >= 2 => FieldIn(fields[2], 0, 59)
                  /\ wanted >= 3 => FieldIn(fields[3], 0, 59)
        hour12 == DigitsValue(fields[1]) % 12
    IN  IF ~ok THEN [ok |-> FALSE, hour |-> 0, minute |-> 0, second |-> 0]
        ELSE [ok |-> TRUE,
              hour |-> IF ~is_twelve_hour_time THEN DigitsValue(fields[1])
                       ELSE IF str_endswith(time_string, PM) THEN hour12 + 12 ELSE hour12,
              minute |-> IF wanted >= 2 THEN DigitsValue(fields[2]) ELSE 0,
              second |-> IF wanted >= 3 THEN DigitsValue(fields[3]) ELSE 0]

\* the digits of n without a leading zero
PadNone(n) ==
    IF n < 10 THEN <<DigitChars[n + 1]>>
    ELSE <<DigitChars[(n \div 10) + 1], DigitChars[(n % 10) + 1]>>

\* ('0' if 0 <= t <= 9 else '') + str(t)
Pad2(n) == <<DigitChars[(n \div 10) + 1], DigitChars[(n % 10) + 1]>>

FormatTime(t) == Pad2(t.hour) \o <<":">> \o Pad2(t.minute) \o <<":">> \o Pad2(t.second)

parse_time(time) ==
    LET t == strptime(str_remove(str_lower(time), " "))
    IN  IF t.ok THEN Return("scalar", <<FormatTime(t)>>)
        ELSE Raise("InvalidInputError", "cannot be recognized as a time")

parse_time_of_day(time) ==
    LET t == strptime(str_remove(str_lower(time), " "))
    IN  IF t.ok THEN Return("scalar", <<FormatTime(t)>>)
        ELSE Raise("ParsingError", "time must be of format 'HH[:MM:SS] [am/pm]'")

(***************************************************************************)
(* Quarters and years: the tables and the quarter parsers of both packages. *)
(***************************************************************************)
YearStart == 2000

YearStop == 2100

\* str(n) of a natural number
RECURSIVE py_str(_)
py_str(n) ==
    IF n < 10 THEN <<DigitChars[n + 1]>>
    ELSE py_str(n \div 10) \o <<DigitChars[(n % 10) + 1]>>

\* s[-k:]
Suffix(s, k) == SubSeq(s, IF Len(s) > k THEN Len(s) - k + 1 ELSE 1, Len(s))

\* [(str(yr), {str(yr), str(yr)[-2:]}) for yr in range(2000, 2100)]
YearRows ==
    [i \in 1..(YearStop - YearStart) |->
        [name |-> py_str(YearStart + i - 1),
         aliases |-> {py_str(YearStart + i - 1), Suffix(py_str(YearStart + i - 1), 2)}]]

YEARS == OrderedDict(YearRows)

year == OrderedDict(YearRows)

QUARTERS ==
    OrderedDict(<<
        [name |-> <<"F","a","l","l">>,
         aliases |-> {<<"f">>, <<"f","a">>, <<"f","a","l","l">>}],
        [name |-> <<"W","i","n","t","e","r">>,
         aliases |-> {<<"w">>, <<"w","i">>, <<"w","i","n">>, <<"w","i","n","t","e","r">>}],
        [name |-> <<"S","p","r","i","n","g">>,
         aliases |-> {<<"s">>, <<"s","p">>, <<"s","p","r">>, <<"s","p","r","i","n","g">>}],
        [name |-> <<"S","u","m","m","e","r">>,
         aliases |-> {<<"u">>, <<"s","u">>, <<"s","u","m">>, <<"s","u","m","m","e","r">>}]
    >>)

quarter ==
    OrderedDict(<<
        [name |-> <<"F","a","l","l">>,
         aliases |-> {<<"1">>, <<"f">>, <<"f","a">>, <<"f","a","l","l">>}],
        [name |-> <<"W","i","n","t","e","r">>,
         aliases |-> {<<"2">>, <<"w">>, <<"w","i">>, <<"w","i","n">>, <<"w","i","n","t","e","r">>}],
        [name |-> <<"S","p","r","i","n","g">>,
         aliases |-> {<<"3">>, <<"s">>, <<"s","p">>, <<"s","p","r">>, <<"s","p","r","i","n","g">>}],
        [name |-> <<"S","u","m","m","e","r">>,
         aliases |-> {<<"4">>, <<"u">>, <<"s","u">>, <<"s","u","m">>, <<"s","u","m","m","e","r">>}]
    >>)

\* the terms in the order of the calendar year
TermOrderCalendar == <<<<"F","a","l","l">>, <<"W","i","n","t","e","r">>, <<"S","p","r","i","n","g">>, <<"S","u","m","m","e","r">>>>

TermOrder == <<<<"W","i","n","t","e","r">>, <<"S","p","r","i","n","g">>, <<"S","u","m","m","e","r">>, <<"F","a","l","l">>>>

\* qtr_name + ' ' + qtr_yr for each year, for each of Winter, Spring, Summer, Fall
QuarterWithYearRows(years) ==
    [i \in 1..(Len(years) * Len(TermOrder)) |->
        LET name == TermOrder[((i - 1) % Len(TermOrder)) + 1] \o <<" ">>
                        \o years[((i - 1) \div Len(TermOrder)) + 1]
        IN  [name |-> name, aliases |-> {name}]]

QUARTERS_WITH_YEARS == OrderedDict(QuarterWithYearRows(YEARS.names))

quarter_with_year == OrderedDict(QuarterWithYearRows(year.names))

\* parse_quarter without the lower-casing of its input
parse_quarter_as_given(quarter_, with_year) ==
    LET parts        == str_partition(quarter_, <<" ">>)
        quarter_name == lookup_by_alias(QUARTERS, parts[1], TRUE)
        quarter_year == lookup_by_alias(YEARS, parts[2], TRUE)
    IN  IF Raised(quarter_name) \/ (with_year /\ Raised(quarter_year))
        THEN Raise("InvalidInputError", "quarter name must correspond to")
        ELSE IF with_year
        THEN Return("scalar", <<quarter_name.value[1] \o <<" ">> \o quarter_year.value[1]>>)
        ELSE quarter_name

\* parse_quarter of stem_center_analytics
parse_quarter(quarter_, with_year) ==
    LET parts        == str_partition(str_lower(quarter_), <<" ">>)
        quarter_name == lookup_by_alias(QUARTERS, parts[1], TRUE)
        quarter_year == lookup_by_alias(YEARS, parts[2], TRUE)
    IN  IF Raised(quarter_name) \/ (with_year /\ Raised(quarter_year))
        THEN Raise("InvalidInputError", "quarter name must correspond to")
        ELSE IF with_year
        THEN Return("scalar", <<quarter_name.value[1] \o <<" ">> \o quarter_year.value[1]>>)
        ELSE quarter_name

\* the parse_quarter nested in parse_quarters of stem_analytics
parse_quarters_parse_quarter(quarter_, with_year) ==
    LET parts         == str_partition(str_lower(quarter_), <<" ">>)
        quarter_name_ == map_to_token(quarter, parts[1], TRUE)
        quarter_year  == map_to_token(year, parts[2], TRUE)
    IN  IF Raised(quarter_name_) \/ (with_year /\ Raised(quarter_year))
        THEN Raise("ParsingError", "quarter name must correspond to")
        ELSE IF with_year
        THEN Return("scalar", <<quarter_name_.value[1] \o <<" ">> \o quarter_year.value[1]>>)
        ELSE quarter_name_

(***************************************************************************)
(* Course subjects: ALL_SUBJECTS (stem_center_analytics) and               *)
(* course_subject_types.all (stem_analytics).                              *)
(***************************************************************************)
ALL_SUBJECTS ==
    OrderedDict(<<
        [name |-> <<"M","a","t","h","e","m","a","t","i","c","s">>,
         aliases |-> {<<"m","a","t">>, <<"m","a","t","h">>, <<"m","a","t","h","e","m","a","t","i","c","s">>}],
        [name |-> <<"P","h","y","s","i","c","s">>,
         aliases |-> {<<"p","h","y">>, <<"p","h","y","s">>, <<"p","h","y","s","i","c","s">>}],
        [name |-> <<"B","i","o","l","o","g","y">>,
         aliases |-> {<<"b","i","o">>, <<"b","i","o","l">>, <<"b","i","o","l","o","g","y">>}],
        [name |-> <<"C","h","e","m","i","s","t","r","y">>,
         aliases |-> {<<"c","h","e">>, <<"c","h","e","m">>, <<"c","h","e","m","i","s","t","r","y">>}],
        [name |-> <<"E","n","g","i","n","e","e","r","i","n","g">>,
         aliases |-> {<<"e","n","g">>, <<"e","n","g","r">>, <<"e","n","g","i">>, <<"e","n","g","i","n","e","e","r","i","n","g">>}],
        [name |-> <<"C","o","m","p","u","t","e","r"," ","S","c","i","e","n","c","e">>,
         aliases |-> {<<"c","s">>, <<"c","o","m">>, <<"c"," ","s">>, <<"c","o","m","p">>, <<"c","o","m","p"," ","s","c","i">>, <<"c","o","m","p","u","t","e","r"," ","s","c","i","e","n","c","e">>}],
        [name |-> <<"A","c","c","o","u","n","t","i","n","g">>,
         aliases |-> {<<"a","c","c">>, <<"a","c","t","g">>, <<"a","c","c","o","u","n","t","i","n","g">>}],
        [name |-> <<"A","s","t","r","o","n","o","m","y">>,
         aliases |-> {<<"a","s","t">>, <<"a","s","t","r">>, <<"a","s","t","r","o">>, <<"a","s","t","r","o","n","o","m","y">>}],
        [name |-> <<"A","n","t","h","r","o","p","o","l","o","g","y">>,
         aliases |-> {<<"a","n","t">>, <<"a","n","t","h">>, <<"a","n","t","h","r","o">>, <<"a","n","t","h","r","o","p","o","l","o","g","y">>}],
        [name |-> <<"B","u","s","i","n","e","s","s">>,
         aliases |-> {<<"b","u","s">>, <<"b","u","s","i">>, <<"b","u","s","i","n","e","s","s">>}],
        [name |-> <<"E","c","o","n","o","m","i","c","s">>,
         aliases |-> {<<"e","c","o">>, <<"e","c","o","n">>, <<"e","c","o","n","o","m","i","c","s">>}],
        [name |-> <<"N","o","n"," ","C","r","e","d","i","t"," ","B","a","s","i","c"," ","S","k","i","l","l","s">>,
         aliases |-> {<<"n","o","n">>, <<"n","c","b","s">>, <<"n","o","n"," ","c","r","e","d","i","t"," ","b","a","s","i","c"," ","s","k","i","l","l","s">>}],
        [name |-> <<"P","s","y","c","h","o","l","o","g","y">>,
         aliases |-> {<<"p","s","y">>, <<"p","s","y","c">>, <<"p","s","y","c","h">>, <<"p","s","y","c","h","o","l","o","g","y">>}],
        [name |-> <<"E","n","g","l","i","s","h">>,
         aliases |-> {<<"e","n","g","l">>, <<"e","n","g","l","i","s","h">>}],
        [name |-> <<"H","i","s","t","o","r","y">>,
         aliases |-> {<<"h","i","s","t","o","r","y">>, <<"h","i","s","t">>}]
    >>)

course_subject_types_all ==
    OrderedDict(<<
        [name |-> <<"M","a","t","h","e","m","a","t","i","c","s">>,
         aliases |-> {<<"m","a","t">>, <<"m","a","t","h">>, <<"m","a","t","h","e","m","a","t","i","c","s">>}],
        [name |-> <<"P","h","y","s","i","c","s">>,
         aliases |-> {<<"p","h","y">>, <<"p","h","y","s">>, <<"p","h","y","s","i","c","s">>}],
        [name |-> <<"B","i","o","l","o","g","y">>,
         aliases |-> {<<"b","i","o">>, <<"b","i","o","l">>, <<"b","i","o","l","o","g","y">>}],
        [name |-> <<"C","h","e","m","i","s","t","r","y">>,
         aliases |-> {<<"c","h","e">>, <<"c","h","e","m">>, <<"c","h","e","m","i","s","t","r","y">>}],
        [name |-> <<"E","n","g","i","n","e","e","r","i","n","g">>,
         aliases |-> {<<"e","n","g">>, <<"e","n","g","r">>, <<"e","n","g","i">>, <<"e","n","g","i","n","e","e","r","i","n","g">>}],
        [name |-> <<"C","o","m","p","u","t","e","r"," ","S","c","i","e","n","c","e">>,
         aliases |-> {<<"c","s">>, <<"c","o","m">>, <<"c"," ","s">>, <<"c","o","m","p">>, <<"c","o","m","p"," ","s","c","i">>, <<"c","o","m","p","u","t","e","r"," ","s","c","i","e","n","c","e">>}],
        [name |-> <<"A","c","c","o","u","n","t","i","n","g">>,
         aliases |-> {<<"a","c","c">>, <<"a","c","t","g">>, <<"a","c","c","o","u","n","t","i","n","g">>}],
        [name |-> <<"A","s","t","r","o","n","o","m","y">>,
         aliases |-> {<<"a","s","t">>, <<"a","s","t","r">>, <<"a","s","t","r","o">>, <<"a","s","t","r","o","n","o","m","y">>}],
        [name |-> <<"A","n","t","h","r","o","p","o","l","o","g","y">>,
         aliases |-> {<<"a","n","t">>, <<"a","n","t","h">>, <<"a","n","t","h","r","o">>, <<"a","n","t","h","r","o","p","o","l","o","g","y">>}],
        [name |-> <<"B","u","s","i","n","e","s","s">>,
         aliases |-> {<<"b","u","s">>, <<"b","u","s","i">>, <<"b","u","s","i","n","e","s","s">>}],
        [name |-> <<"E","c","o","n","o","m","i","c","s">>,
         aliases |-> {<<"e","c","o">>, <<"e","c","o","n">>, <<"e","c","o","n","o","m","i","c","s">>}],
        [name |-> <<"N","o","n"," ","C","r","e","d","i","t"," ","B","a","s","i","c"," ","S","k","i","l","l","s">>,
         aliases |-> {<<"n","o","n">>, <<"n","c","b","s">>, <<"n","o","n"," ","c","r","e","d","i","t"," ","b","a","s","i","c"," ","s","k","i","l","l","s">>}],
        [name |-> <<"P","s","y","c","h","o","l","o","g","y">>,
         aliases |-> {<<"p","s","y">>, <<"p","s","y","c">>, <<"p","s","y","c","h">>, <<"p","s","y","c","h","o","l","o","g","y">>}]
    >>)

(***************************************************************************)
(* The course records.  A row of the tutor_requests table is a course as   *)
(* <<subject, number, section>>; stem_center_analytics stores the joined   *)
(* string in the column 'course'.                                          *)
(***************************************************************************)
Max(a, b) == IF a < b THEN b ELSE a

Min(a, b) == IF a < b THEN a ELSE b

\* a slice bound as Python reads it: negative bounds count from the end
SliceBound(i, n) == IF i < 0 THEN Max(0, n + i) ELSE Min(i, n)

\* s[lo:hi] with 0-based bounds
py_slice(s, lo, hi) == SubSeq(s, SliceBound(lo, Len(s)) + 1, SliceBound(hi, Len(s)))

\* s.rfind(c, 0, hi): 0-based position of the last c in s[0:hi], or -1
py_rfind(s, c, hi) == str_rfind(s, c, SliceBound(hi, Len(s))) - 1

JoinCourse(subject, number, section) ==
    str_strip(str_join(<<" ">>, <<subject, number, section>>))

CourseColumn(rows) == {JoinCourse(r[1], r[2], r[3]) : r \in rows}

extract_course_components(course) ==
    LET number_end   == py_rfind(course, " ", Len(course))
        number_start == py_rfind(course, " ", number_end) + 1
        subject      == py_slice(course, 0, number_start - 1)
        number       == py_slice(course, number_start, number_end)
    IN  {subject, subject \o <<" ">> \o number, course}

get_set_of_all_courses(rows) ==
    UNION {extract_course_components(course_name) : course_name \in CourseColumn(rows)}

\* warehouse/_data_models.py: the records by columns
get_set_of_all_courses_by_columns(rows) ==
    {r[1] : r \in rows}
        \cup {r[1] \o <<" ">> \o r[2] : r \in rows}
        \cup {r[1] \o <<" ">> \o r[2] \o <<" ">> \o r[3] : r \in rows}

(***************************************************************************)
(* parse_course (stem_center_analytics) and parse_full_course_name         *)
(* (stem_analytics).                                                       *)
(***************************************************************************)
FirstDigitPosition(s) ==
    LET hits == {i \in DOMAIN s : IsDigit(s[i])}
    IN  IF hits = {} THEN 0 ELSE CHOOSE i \in hits : \A j \in hits : i <= j

DropLast(s, n) == SubSeq(s, 1, Len(s) - n)

\* re.sub('(\. f|\.| f)?$', '', subject)
StripSubject(subject) ==
    IF str_endswith(subject, <<".", " ", "f">>) THEN DropLast(subject, 3)
    ELSE IF str_endswith(subject, <<" ", "f">>) THEN DropLast(subject, 2)
    ELSE IF str_endswith(subject, <<".">>) THEN DropLast(subject, 1)
    ELSE subject

\* re.sub('^0{,2}|(\.)?$', '', number)
StripNumber(number) ==
    LET zeros == IF Len(number) >= 2 /\ number[1] = "0" /\ number[2] = "0" THEN 2
                 ELSE IF Len(number) >= 1 /\ number[1] = "0" THEN 1 ELSE 0
        rest  == SubSeq(number, zeros + 1, Len(number))
    IN  IF str_endswith(rest, <<".">>) THEN DropLast(rest, 1) ELSE rest

\* re.sub('^0|o', '', section)
StripSection(section) ==
    str_remove(IF section # <<>> /\ Head(section) = "0" THEN Tail(section) ELSE section, "o")

\* the segmentation and anomaly stripping both parsers start with
CourseComponents(course_name) ==
    LET course_name_ == str_lower(str_join(<<" ">>, str_split(course_name)))
        first_digit_position == FirstDigitPosition(course_name_)
        tail    == str_partition(str_upper(SubSeq(course_name_, first_digit_position,
                                                  Len(course_name_))), <<" ">>)
        subject == IF first_digit_position = 0 THEN str_strip(course_name)
                   ELSE str_strip(SubSeq(course_name_, 1, first_digit_position - 1))
        number  == IF first_digit_position = 0 THEN <<>> ELSE tail[1]
        section == IF first_digit_position = 0 THEN <<>> ELSE tail[2]
    IN  [subject |-> StripSubject(subject),
         number  |-> StripNumber(number),
         section |-> StripSection(section)]

\* the checks with the two diagnostics exchanged
CheckRecordsSwapped(subject, number, section, set_of_all_courses, exc, as_tuple) ==
    LET full_course_name == JoinCourse(subject, number, section)
        course_name_without_section == str_strip(str_join(<<" ">>, <<subject, number>>))
    IN  IF full_course_name \in set_of_all_courses
        THEN IF as_tuple THEN Return("tuple", <<subject, number, section>>)
             ELSE Return("scalar", <<full_course_name>>)
        ELSE IF course_name_without_section \in set_of_all_courses
        THEN Raise(exc, "subject has no course number on record")
        ELSE IF subject \in set_of_all_courses
        THEN Raise(exc, "course has no section on record")
        ELSE Raise(exc, "course name requires a recognizable subject")

\* the checks against the records once the subject is resolved and on record
CheckRecords(subject, number, section, set_of_all_courses, exc, as_tuple) ==
    LET full_course_name == JoinCourse(subject, number, section)
        course_name_without_section == str_strip(str_join(<<" ">>, <<subject, number>>))
    IN  IF full_course_name \in set_of_all_courses
        THEN IF as_tuple THEN Return("tuple", <<subject, number, section>>)
             ELSE Return("scalar", <<full_course_name>>)
        ELSE IF course_name_without_section \in set_of_all_courses
        THEN Raise(exc, "course has no section on record")
        ELSE IF subject \in set_of_all_courses
        THEN Raise(exc, "subject has no course number on record")
        ELSE Raise(exc, "course name requires a recognizable subject")

\* parse_course without the lookup in the records
parse_course_unchecked(course_name, check_records, rows) ==
    LET c == CourseComponents(course_name)
        found == lookup_by_alias(ALL_SUBJECTS, c.subject, TRUE)
    IN  IF Raised(found) THEN found
        ELSE Return("scalar", <<JoinCourse(found.value[1], c.number, c.section)>>)

parse_course(course_name, check_records, rows) ==
    LET c == CourseComponents(course_name)
        found == lookup_by_alias(ALL_SUBJECTS, c.subject, TRUE)
    IN  IF ~check_records
        THEN IF Raised(found) THEN found
             ELSE Return("scalar", <<JoinCourse(found.value[1], c.number, c.section)>>)
        ELSE
        LET set_of_all_courses == get_set_of_all_courses(rows)
        IN  IF Raised(found)
            THEN Raise("InvalidInputError", "subject is not on record")
            ELSE IF found.value[1] \notin set_of_all_courses
            \* 'raise InvalidInputError' instantiates the class without its two
            \* arguments; the TypeError is not caught by 'except InvalidInputError'
            THEN Raise("TypeError", "__init__() missing 2 required positional arguments")
            ELSE CheckRecords(found.value[1], c.number, c.section, set_of_all_courses,
                              "InvalidInputError", FALSE)

\* parse_full_course_name without the test of the subject against the records
parse_full_course_name_untested(course_name, as_tuple, rows) ==
    LET c == CourseComponents(course_name)
        found == map_to_token(course_subject_types_all, c.subject, TRUE)
        SET_OF_ALL_COURSES == get_set_of_all_courses_by_columns(rows)
    IN  IF Raised(found)
        THEN Raise("ParsingError", "subject is not on record")
        ELSE CheckRecords(found.value[1], c.number, c.section, SET_OF_ALL_COURSES,
                          "ParsingError", as_tuple)

parse_full_course_name(course_name, as_tuple, rows) ==
    LET c == CourseComponents(course_name)
        found == map_to_token(course_subject_types_all, c.subject, TRUE)
        SET_OF_ALL_COURSES == get_set_of_all_courses_by_columns(rows)
    IN  IF Raised(found) \/ found.value[1] \notin SET_OF_ALL_COURSES
        THEN Raise("ParsingError", "subject is not on record")
        ELSE CheckRecords(found.value[1], c.number, c.section, SET_OF_ALL_COURSES,
                          "ParsingError", as_tuple)

(***************************************************************************)
(* Weeks of a quarter and years (stem_analytics).                          *)
(***************************************************************************)
WeekStart == 0

WeekStop == 12

SummerWeekStart == 0

SummerWeekStop == 12

\* [(str(wk), {str(wk)}) for wk in range(start, stop)]
NumberRows(start, stop) ==
    [i \in 1..(stop - start) |->
        [name |-> py_str(start + i - 1), aliases |-> {py_str(start + i - 1)}]]

week_in_summer_quarter == OrderedDict(NumberRows(SummerWeekStart, SummerWeekStop))

week_in_quarter == OrderedDict(NumberRows(WeekStart, WeekStop))

\* the parse_year nested in parse_years
parse_years_parse_year(year_) ==
    LET found == map_to_token(year, year_, TRUE)
    IN  IF Raised(found)
        THEN Raise("ParsingError", "both years in the range must be in current century")
        ELSE found

\* a bound method handed over as values_to_slice: it is true in a condition
\* and list() of it raises TypeError
BoundMethod == <<<<"<bound method ParserDict.map_to_token>">>>>

(***************************************************************************)
(* Datetimes (stem_analytics).  pandas.to_datetime is outside the          *)
(* repository; cast_to_dt is modelled on the forms the docstring of        *)
(* parse_datetimes shows it accepting: a date 'YYYY-MM-DD' or               *)
(* 'YYYY/MM/DD', then optionally a space and a time 'H[H][:M[M][:S[S]]]'.  *)
(* Any other text is pandas' ValueError.  A Timestamp is the record of its *)
(* fields.                                                                 *)
(***************************************************************************)
DigitField(s, lengths) == Len(s) \in lengths /\ str_isdigit(s)

IsLeapYear(y) == (y % 4 = 0 /\ y % 100 # 0) \/ y % 400 = 0

DaysInMonth(y, m) ==
    IF m = 2 THEN (IF IsLeapYear(y) THEN 29 ELSE 28)
    ELSE IF m \in {4, 6, 9, 11} THEN 30 ELSE 31

Timestamp(year_, month, day, hour, minute, second) ==
    [year |-> year_, month |-> month, day |-> day,
     hour |-> hour, minute |-> minute, second |-> second]

DateFields(date) ==
    LET fields == IF str_count(date, "-") > 0 THEN str_split_on(date, "-")
                  ELSE str_split_on(date, "/")
    IN  IF /\ Len(fields) = 3
           /\ DigitField(fields[1], {4})
           /\ DigitField(fields[2], {2})
           /\ DigitField(fields[3], {2})
        THEN <<DigitsValue(fields[1]), DigitsValue(fields[2]), DigitsValue(fields[3])>>
        ELSE <<>>

TimeFields(time) ==
    LET fields == str_split_on(time, ":")
    IN  IF time = <<>> THEN <<0, 0, 0>>
        ELSE IF /\ Len(fields) \in 1..3
                /\ \A i \in DOMAIN fields : DigitField(fields[i], {1, 2})
        THEN [i \in 1..3 |-> IF i <= Len(fields) THEN DigitsValue(fields[i]) ELSE 0]
        ELSE <<>>

\* pd.to_datetime(dt_string, format='%Y-%m-%d %H:%M:%S')
cast_to_dt(dt_string) ==
    LET parts == str_partition(dt_string, <<" ">>)
        d     == DateFields(parts[1])
        t     == TimeFields(parts[2])
    IN  IF /\ d # <<>>
           /\ t # <<>>
           /\ d[2] \in 1..12
           /\ d[3] \in 1..DaysInMonth(d[1], d[2])
           /\ t[1] < 24 /\ t[2] < 60 /\ t[3] < 60
        THEN Return("scalar", <<Timestamp(d[1], d[2], d[3], t[1], t[2], t[3])>>)
        ELSE Raise("ValueError", "time data does not match format")

\* the nested parse_datetime of parse_datetimes
parse_datetimes_parse_datetime(dt) ==
    LET components == str_partition(dt, <<" ">>)
        date       == str_strip(components[1])
        time       == str_strip(components[2])
    IN  IF date # <<>>
        THEN (IF time # <<>> THEN cast_to_dt(date \o <<" ">> \o time) ELSE cast_to_dt(date))
        ELSE Raise("ParsingError", "datetime must contain the following two items")

\* Timestamp.__lt__
TimestampBefore(a, b) ==
    LET fa == <<a.year, a.month, a.day, a.hour, a.minute, a.second>>
        fb == <<b.year, b.month, b.day, b.hour, b.minute, b.second>>
    IN  \E i \in 1..6 : fa[i] < fb[i] /\ \A j \in 1..(i - 1) : fa[j] = fb[j]

\* the digits of n, zero filled to the given width
ZeroFilled(n, width) ==
    LET digits == py_str(n)
    IN  [i \in 1..(width - Len(digits)) |-> "0"] \o digits

\* str(Timestamp): 'YYYY-MM-DD HH:MM:SS'
TimestampStr(ts) ==
    ZeroFilled(ts.year, 4) \o <<"-">> \o ZeroFilled(ts.month, 2) \o <<"-">>
        \o ZeroFilled(ts.day, 2) \o <<" ">> \o ZeroFilled(ts.hour, 2) \o <<":">>
        \o ZeroFilled(ts.minute, 2) \o <<":">> \o ZeroFilled(ts.second, 2)

(***************************************************************************)
(* parse_date and parse_datetime (stem_center_analytics).  The date goes   *)
(* through pandas.to_datetime with an inferred format; it is modelled on   *)
(* the forms the docstring of parse_date shows: year first ('2021-02-22',  *)
(* '2021/02/22', '2011.12.25', '2015-2-2') or year last ('9/25/2013').     *)
(***************************************************************************)
InferredDateFields(date) ==
    LET sep    == IF str_count(date, "-") > 0 THEN "-"
                  ELSE IF str_count(date, "/") > 0 THEN "/" ELSE "."
        fields == str_split_on(date, sep)
    IN  IF Len(fields) # 3 THEN <<>>
        ELSE IF /\ DigitField(fields[1], {4})
                /\ DigitField(fields[2], {1, 2})
                /\ DigitField(fields[3], {1, 2})
        THEN <<DigitsValue(fields[1]), DigitsValue(fields[2]), DigitsValue(fields[3])>>
        ELSE IF /\ DigitField(fields[1], {1, 2})
                /\ DigitField(fields[2], {1, 2})
                /\ DigitField(fields[3], {4})
        THEN <<DigitsValue(fields[3]), DigitsValue(fields[1]), DigitsValue(fields[2])>>
        ELSE <<>>

\* pd.to_datetime(date, infer_datetime_format=True).date(): <<year, month, day>>,
\* or <<>> for the exception
to_date(date) ==
    LET d == InferredDateFields(date)
    IN  IF d # <<>> /\ d[2] \in 1..12 /\ d[3] \in 1..DaysInMonth(d[1], d[2])
        THEN d ELSE <<>>

\* strftime('%Y-%m-%d')
DateStr(d) == ZeroFilled(d[1], 4) \o <<"-">> \o ZeroFilled(d[2], 2) \o <<"-">> \o ZeroFilled(d[3], 2)

parse_date(date, as_date_object) ==
    LET parts == str_partition(date, <<" ">>)
        dt_   == to_date(parts[1])
    IN  IF str_remove(parts[2], " ") # <<>>
        THEN Raise("InvalidInputError", "only date-like strings can be parsed")
        ELSE IF dt_ = <<>>
        THEN Raise("InvalidInputError", "cannot be recognized as a date")
        ELSE Return("scalar", <<IF as_date_object THEN dt_ ELSE DateStr(dt_)>>)

\* the time is taken as written: a missing time is an error
parse_datetime_time_required(dt, as_timestamp_object) ==
    LET parts == str_partition(normalize_spaces(dt), <<" ">>)
        date_ == parse_date(parts[1], TRUE)
        time_ == strptime(str_remove(str_lower(parts[2]), " "))
    IN  IF parts[1] = <<>> \/ Raised(date_) \/ ~time_.ok
        THEN Raise("InvalidInputError",
                   "must consist of a valid date followed by an optional valid time")
        ELSE LET dt_ == Timestamp(date_.value[1][1], date_.value[1][2], date_.value[1][3],
                                  time_.hour, time_.minute, time_.second)
             IN  Return("scalar", <<IF as_timestamp_object THEN dt_ ELSE TimestampStr(dt_)>>)

\* every exception under the try (a date of None in combine, the errors of
\* parse_date and parse_time) becomes InvalidInputError
parse_datetime(dt, as_timestamp_object) ==
    LET parts == str_partition(normalize_spaces(dt), <<" ">>)
        date_ == parse_date(parts[1], TRUE)
        time_ == IF parts[2] # <<>> THEN strptime(str_remove(str_lower(parts[2]), " "))
                 ELSE [ok |-> TRUE, hour |-> 0, minute |-> 0, second |-> 0]
    IN  IF parts[1] = <<>> \/ Raised(date_) \/ ~time_.ok
        THEN Raise("InvalidInputError",
                   "must consist of a valid date followed by an optional valid time")
        ELSE LET dt_ == Timestamp(date_.value[1][1], date_.value[1][2], date_.value[1][3],
                                  time_.hour, time_.minute, time_.second)
             IN  Return("scalar", <<IF as_timestamp_object THEN dt_ ELSE TimestampStr(dt_)>>)

(***************************************************************************)
(* Mapping functions handed to the composite parser.                       *)
(***************************************************************************)
\* a callable taking a string, as the value handed to the composite parsers
Callable(f(_)) == [string \in Seq(STRING) |-> f(string)]

Apply(mapping_func, string) ==
    CASE mapping_func = "str.capitalize" -> Return("scalar", <<str_capitalize(string)>>)
      [] mapping_func = "WEEKDAYS.lookup_by_alias" -> lookup_by_alias(WEEKDAYS, string, TRUE)
      [] mapping_func = "weekday.map_to_token" -> map_to_token(weekday, string, TRUE)
      [] mapping_func = "parse_time" -> parse_time(string)

\* [f(t) for t in tokens]: the first exception ends the comprehension
RECURSIVE MapAll(_, _, _)
MapAll(f(_), tokens, acc) ==
    IF tokens = <<>> THEN Return("list", acc)
    ELSE LET r == f(Head(tokens))
         IN  IF Raised(r) THEN r
             ELSE MapAll(f, Tail(tokens),
                         acc \o (IF r.shape = "tuple" THEN <<r.value>> ELSE r.value))

\* values.index(v), 1-based; 0 stands for the ValueError of a missing value
ListIndex(values, v) ==
    LET hits == {i \in DOMAIN values : values[i] = v}
    IN  IF hits = {} THEN 0 ELSE CHOOSE i \in hits : \A j \in hits : i <= j

(***************************************************************************)
(* parse_user_input (stem_center_analytics).                               *)
(***************************************************************************)
MapElement(mapping_func, item) ==
    IF ~item.isstr THEN Raise("AttributeError", "object has no attribute 'split'")
    ELSE mapping_func[str_join(<<" ">>, str_split(item.s))]

\* the slice without its right end
SliceHalfOpen(left_value, right_value, values_to_slice, exc) ==
    LET left_index  == ListIndex(values_to_slice, left_value)
        right_index == ListIndex(values_to_slice, right_value)
    IN  IF left_index = 0 \/ right_index = 0
        THEN Raise("ValueError", "is not in list")
        ELSE IF left_index < right_index
        THEN Return("list", SubSeq(values_to_slice, left_index, right_index - 1))
        ELSE Raise(exc, "must be of the form 'LHS - RHS' where LHS < RHS")

SliceOrRaise(left_value, right_value, values_to_slice, exc) ==
    LET left_index  == ListIndex(values_to_slice, left_value)
        right_index == ListIndex(values_to_slice, right_value)
    IN  IF left_index = 0 \/ right_index = 0
        THEN Raise("ValueError", "is not in list")
        ELSE IF left_index < right_index
        THEN Return("list", SubSeq(values_to_slice, left_index, right_index))
        ELSE Raise(exc, "must be of the form 'LHS - RHS' where LHS < RHS")

parse_user_input(user_input, mapping_func, values_to_slice) ==
    IF user_input.type = "seq"
    THEN MapAll(LAMBDA item : MapElement(mapping_func, item), user_input.items, <<>>)
    ELSE IF user_input.type # "str"
    THEN Raise("ValueError", "Only a collection of strings OR a single string can be parsed")
    ELSE
    LET text        == user_input.text
        user_input_ == str_join(<<" ">>, str_split(text))
    IN  IF ~str_contains(text, Dash)
        THEN MapAll(LAMBDA seg : mapping_func[str_strip(seg)],
                    str_split_on(text, ","), <<>>)
        ELSE IF str_count(text, "-") = 1 /\ ~str_contains(text, Dash)
        THEN Raise("ValueError", "Dashed input must be separated by ' - '")
        ELSE
        LET parts == str_partition(str_join(<<" ">>, str_split(user_input_)), Dash)
            left  == mapping_func[parts[1]]
            right == mapping_func[parts[2]]
        IN  IF Raised(left) THEN left
            ELSE IF Raised(right) THEN right
            ELSE IF values_to_slice = <<>>
            THEN Return("pair", left.value \o right.value)
            ELSE SliceOrRaise(left.value[1], right.value[1], values_to_slice, "ValueError")

(***************************************************************************)
(* _parse_input and its helpers (stem_analytics).                          *)
(***************************************************************************)
parse_collection_of_strings(user_input, mapping_func) ==
    IF user_input.type # "seq" \/ \E i \in DOMAIN user_input.items : ~user_input.items[i].isstr
    THEN Raise("ParsingError", "only a collection of strings can be parsed")
    ELSE MapAll(LAMBDA item : mapping_func[normalize_spaces(item.s)],
                user_input.items, <<>>)

parse_dashed_string(user_input, mapping_func, mapped_values_to_slice) ==
    IF user_input.type # "str"
    THEN Raise("ParsingError", "only a string can be parsed as dashed input")
    ELSE IF ~str_contains(user_input.text, Dash)
    THEN Raise("ParsingError", "dashed string must contain a ' - '")
    ELSE
    LET parts == str_partition(normalize_spaces(user_input.text), Dash)
        left  == mapping_func[parts[1]]
        right == mapping_func[parts[2]]
    IN  IF Raised(left) THEN left
        ELSE IF Raised(right) THEN right
        ELSE IF mapped_values_to_slice = <<>>
        THEN Return("pair", left.value \o right.value)
        ELSE IF mapped_values_to_slice = BoundMethod
        THEN Raise("TypeError", "'method' object is not iterable")
        ELSE SliceOrRaise(left.value[1], right.value[1], mapped_values_to_slice,
                          "ParsingError")

parse_delimited_string(user_input, mapping_func) ==
    IF user_input.type # "str"
    THEN Raise("ParsingError", "only a string can parsed as delimited input")
    ELSE MapAll(LAMBDA seg : mapping_func[str_strip(seg)],
                str_split_on(normalize_spaces(user_input.text), ","), <<>>)

_parse_input(user_input, mapping_func, values_to_slice) ==
    IF user_input.type \notin {"str", "seq"}
    THEN Raise("ParsingError", "Only a collection of strings OR a single string can be parsed")
    ELSE IF user_input.type = "str"
    THEN IF str_contains(user_input.text, Dash)
         THEN parse_dashed_string(user_input, mapping_func, values_to_slice)
         ELSE parse_delimited_string(user_input, mapping_func)
    ELSE parse_collection_of_strings(user_input, mapping_func)

(***************************************************************************)
(* Tables under test: every argument list of at most MaxRows rows over a   *)
(* small vocabulary (the class docstring's names).  Alias sets of          *)
(* different rows may overlap and a name may be repeated.                   *)
(***************************************************************************)
RowNames == {<<"j","o","e">>, <<"z","o","e">>}

RowAliases == {<<"j","o">>, <<"J","o">>, <<"z","o">>}

Rows == [name : RowNames, aliases : SUBSET RowAliases]

ArgLists == UNION {[1..n -> Rows] : n \in 0..MaxRows}

ProbeAliases == RowAliases \cup {<<"j","o","e">>, <<" ","j","o">>}

IntArg(n) == [kind |-> "int", n |-> n, text |-> <<>>]

TextArg(s) == [kind |-> "str", n |-> 0, text |-> s]

ProbeOrderings ==
    {IntArg(n) : n \in (0 - (MaxRows + 1))..(MaxRows + 2)}
        \cup {TextArg(<<"1">>), TextArg(<<" ","2">>), TextArg(<<"j","o">>)}

TableCalls ==
    {[fn |-> f, alias |-> a, raise_if_not_found |-> r] :
         f \in {"lookup_by_alias", "map_to_token"}, a \in ProbeAliases, r \in BOOLEAN}
    \cup {[fn |-> "lookup_by_ordering", ordering |-> o, raise_if_not_found |-> r] :
         o \in ProbeOrderings, r \in BOOLEAN}

\* a constructed table and a pending lookup on it
InitTable ==
    /\ \E args \in ArgLists :
          /\ AliasTable_init(args).ok
          /\ table = AliasTable_init(args).table
    /\ db = {}
    /\ call \in TableCalls
    /\ result = NoResult

Pending(fn) == call.fn = fn /\ result = NoResult

LookupByAlias ==
    /\ Pending("lookup_by_alias")
    /\ result' = lookup_by_alias(table, call.alias, call.raise_if_not_found)
    /\ UNCHANGED <<table, db, call>>

MapToToken ==
    /\ Pending("map_to_token")
    /\ result' = map_to_token(table, call.alias, call.raise_if_not_found)
    /\ UNCHANGED <<table, db, call>>

LookupByOrdering ==
    /\ Pending("lookup_by_ordering")
    /\ result' = lookup_by_ordering(table, call.ordering, call.raise_if_not_found)
    /\ UNCHANGED <<table, db, call>>

NextTable == LookupByAlias \/ MapToToken \/ LookupByOrdering

SpecTable == InitTable /\ [][NextTable]_vars

(***************************************************************************)
(* Properties of the table lookups.                                        *)
(***************************************************************************)
Done == result # NoResult

IsAliasLookup == Done /\ call.fn \in {"lookup_by_alias", "map_to_token"}

RowsDeclaring(alias) ==
    {i \in DOMAIN table.names : alias \in table.aliases[table.names[i]]}

\* C2: a lookup of an alias declared in some row returns the name of the
\* earliest such row, comparing strings exactly; a lookup of a string declared
\* in no row raises the parsing error when raise_if_not_found is true.
C2_LookupByAliasFirstRow ==
    IsAliasLookup =>
        /\ \A i \in RowsDeclaring(call.alias) :
              (\A j \in RowsDeclaring(call.alias) : i <= j)
                  => result = Return("scalar", <<table.names[i]>>)
        /\ (RowsDeclaring(call.alias) = {} /\ call.raise_if_not_found)
              => IsParsingError(result)

\* an alias declared by two rows was looked up
C2_Witness ==
    /\ IsAliasLookup
    /\ Cardinality(RowsDeclaring(call.alias)) >= 2
    /\ Returned(result)

\* C3: lookup_by_ordering(i) returns the i-th declared name for i in 1..N,
\* and raises for 0 and for N+1 when raise_if_not_found is true.
C3_LookupByOrderingRange ==
    (Done /\ call.fn = "lookup_by_ordering" /\ call.ordering.kind = "int") =>
        LET n == Len(table.names)
            i == call.ordering.n
        IN  /\ i \in 1..n => result = Return("scalar", <<table.names[i]>>)
            /\ (i \in {0, n + 1} /\ call.raise_if_not_found) => Raised(result)

parse_time_range(time_range) == _parse_input(time_range, Callable(parse_time_of_day), <<>>)

parse_quarters(quarters, with_year) ==
    LET left == str_partition(quarters.text, Dash)[1]
    IN  IF /\ quarters.type = "str"
           /\ str_contains(quarters.text, Dash)
           /\ Len(str_split(left)) # Len(str_split(left))
        THEN Raise("ParsingError", "Quarters on each side of dash must have exact same number of components")
        ELSE _parse_input(quarters,
                          Callable(LAMBDA quarter_ : parse_quarters_parse_quarter(quarter_, with_year)),
                          quarter_with_year.names)

\* academic_time_units has no attribute 'day': evaluating the arguments of
\* the call raises before _parse_input is entered
parse_days(days) ==
    Raise("AttributeError", "'types.SimpleNamespace' object has no attribute 'day'")

parse_weeks_in_quarter(weeks_in_quarter, is_summer) ==
    IF is_summer
    THEN _parse_input(weeks_in_quarter,
                      Callable(LAMBDA alias : map_to_token(week_in_summer_quarter, alias, TRUE)),
                      week_in_summer_quarter.names)
    ELSE _parse_input(weeks_in_quarter,
                      Callable(LAMBDA alias : map_to_token(week_in_quarter, alias, TRUE)),
                      week_in_quarter.names)

parse_years(years) == _parse_input(years, Callable(parse_years_parse_year), BoundMethod)

\* ' - ' in course_names: a substring test on a string, an element test on a
\* sequence
parse_courses(course_names, as_tuple) ==
    IF \/ course_names.type = "str" /\ str_contains(course_names.text, Dash)
       \/ course_names.type = "seq" /\
              \E i \in DOMAIN course_names.items :
                  course_names.items[i].isstr /\ course_names.items[i].s = Dash
    THEN Raise("ParsingError", "course input cannot be dashed")
    ELSE IF course_names.type = "other"
    THEN Raise("TypeError", "argument of type 'int' is not iterable")
    ELSE _parse_input(course_names,
                      Callable(LAMBDA course_name : parse_full_course_name(course_name, as_tuple, db)),
                      <<>>)

IsDatetimeRangeAnyTwo(datetimes, parsed_values) == Len(parsed_values) = 2

\* the values are returned as a pair: a string holding ' - ' that gave two
\* values
IsDatetimeRange(datetimes, parsed_values) ==
    /\ datetimes.type = "str"
    /\ str_contains(datetimes.text, Dash)
    /\ Len(parsed_values) = 2

\* parsed_values, or list(map(str, parsed_values))
DatetimeValues(parsed_values, as_datetime) ==
    IF as_datetime THEN parsed_values
    ELSE [i \in DOMAIN parsed_values |-> TimestampStr(parsed_values[i])]

parse_datetimes_unordered(datetimes, as_datetime) ==
    LET parsed_values == _parse_input(datetimes, Callable(parse_datetimes_parse_datetime), <<>>)
    IN  IF Raised(parsed_values) THEN parsed_values
        ELSE IF ~IsDatetimeRange(datetimes, parsed_values.value)
        THEN Return("list", DatetimeValues(parsed_values.value, as_datetime))
        ELSE Return("pair", DatetimeValues(parsed_values.value, as_datetime))

parse_datetimes(datetimes, as_datetime) ==
    LET parsed_values == _parse_input(datetimes, Callable(parse_datetimes_parse_datetime), <<>>)
    IN  IF Raised(parsed_values) THEN parsed_values
        ELSE IF ~IsDatetimeRange(datetimes, parsed_values.value)
        THEN Return("list", DatetimeValues(parsed_values.value, as_datetime))
        ELSE IF TimestampBefore(parsed_values.value[1], parsed_values.value[2])
        THEN Return("pair", DatetimeValues(parsed_values.value, as_datetime))
        ELSE Raise("ParsingError", "must be of the form 'LHS - RHS' where LHS < RHS")

(***************************************************************************)
(* Calls of the composite parser: every string of at most MaxLen           *)
(* characters over a small alphabet, short sequences, and a non-sequence.  *)
(***************************************************************************)
InputAlphabet == {"m", "w", " ", "\t", "-", ","}

Strings == UNION {[1..n -> InputAlphabet] : n \in 0..MaxLen}

StrInput(s) == [type |-> "str", text |-> s, items |-> <<>>]

SeqInput(items) == [type |-> "seq", text |-> <<>>, items |-> items]

\* an int or None
OtherInput == [type |-> "other", text |-> <<>>, items |-> <<>>]

StrItem(s) == [isstr |-> TRUE, s |-> s]

IntItem == [isstr |-> FALSE, s |-> <<>>]

ItemChoices ==
    {StrItem(<<"m">>), StrItem(<<"w">>), StrItem(<<" ","w">>), StrItem(<<"m","\t">>),
     StrItem(<<"m"," "," ","w">>), StrItem(<<>>), IntItem}

UserInputs ==
    {StrInput(s) : s \in Strings}
        \cup {SeqInput(items) : items \in UNION {[1..n -> ItemChoices] : n \in 0..MaxItems}}
        \cup {OtherInput}

MTW == <<<<"M">>, <<"T">>, <<"W">>>>

ParserConfigs ==
    {[fn |-> "parse_user_input", mapping_func |-> "str.capitalize", values_to_slice |-> <<>>],
     [fn |-> "parse_user_input", mapping_func |-> "str.capitalize", values_to_slice |-> MTW],
     [fn |-> "parse_user_input", mapping_func |-> "WEEKDAYS.lookup_by_alias",
      values_to_slice |-> WEEKDAYS.names],
     [fn |-> "_parse_input", mapping_func |-> "str.capitalize", values_to_slice |-> <<>>],
     [fn |-> "_parse_input", mapping_func |-> "str.capitalize", values_to_slice |-> MTW],
     [fn |-> "_parse_input", mapping_func |-> "weekday.map_to_token",
      values_to_slice |-> weekday.names]}

NoTable == OrderedDict(<<>>)

InitInput ==
    /\ table = NoTable
    /\ db = {}
    /\ \E c \in ParserConfigs, u \in UserInputs :
          call = [fn |-> c.fn, user_input |-> u, mapping_func |-> c.mapping_func,
                  values_to_slice |-> c.values_to_slice]
    /\ result = NoResult

ParseUserInput ==
    /\ Pending("parse_user_input")
    /\ result' = parse_user_input(call.user_input,
                                 Callable(LAMBDA string : Apply(call.mapping_func, string)),
                                 call.values_to_slice)
    /\ UNCHANGED <<table, db, call>>

ParseInput ==
    /\ Pending("_parse_input")
    /\ result' = _parse_input(call.user_input,
                             Callable(LAMBDA string : Apply(call.mapping_func, string)),
                             call.values_to_slice)
    /\ UNCHANGED <<table, db, call>>

NextInput == ParseUserInput \/ ParseInput

SpecInput == InitInput /\ [][NextInput]_vars

(***************************************************************************)
(* Properties of the composite parser.                                     *)
(***************************************************************************)
IsParse == Done /\ call.fn \in {"parse_user_input", "_parse_input"}

IsStrParse == IsParse /\ call.user_input.type = "str"

SeparatorError ==
    IsParsingError(result) /\ result.msg = "Dashed input must be separated by ' - '"

\* C1: a string holding exactly one '-' that is not part of ' - ' makes the
\* composite parser fail with the parsing error naming the ' - ' separator.
C1_BareDashRejected ==
    (/\ IsStrParse
     /\ str_count(call.user_input.text, "-") = 1
     /\ ~str_contains(call.user_input.text, Dash)) => SeparatorError

\* a range endpoint written without whitespace, dash or comma
IsEndpointToken(s) ==
    s # <<>> /\ \A i \in DOMAIN s : s[i] \notin {" ", "\t", "-", ","}

OrderError ==
    IsParsingError(result) /\ result.msg = "must be of the form 'LHS - RHS' where LHS < RHS"

\* C4: for 'L - R' and a non-empty values_to_slice in which both mapped
\* values occur, the parser returns the inclusive slice from the left
\* position to the right position when left < right, and otherwise fails
\* with the parsing error that demands LHS < RHS.
C4_DashedSliceOrOrderError ==
    (IsStrParse /\ call.values_to_slice # <<>>) =>
        \A p \in DOMAIN call.user_input.text :
            LET text == call.user_input.text
                L == SubSeq(text, 1, p - 1)
                R == SubSeq(text, p + 3, Len(text))
            IN  (/\ StartsAt(text, Dash, p)
                 /\ IsEndpointToken(L)
                 /\ IsEndpointToken(R)
                 /\ Returned(Apply(call.mapping_func, L))
                 /\ Returned(Apply(call.mapping_func, R))) =>
                    LET values == call.values_to_slice
                        li == ListIndex(values, Apply(call.mapping_func, L).value[1])
                        ri == ListIndex(values, Apply(call.mapping_func, R).value[1])
                    IN  (li # 0 /\ ri # 0) =>
                            /\ li < ri => result = Return("list", SubSeq(values, li, ri))
                            /\ li >= ri => OrderError

RECURSIVE StripWhitespace(_)
StripWhitespace(s) ==
    IF s # <<>> /\ IsSpace(Head(s)) THEN StripWhitespace(Tail(s))
    ELSE IF s # <<>> /\ IsSpace(s[Len(s)]) THEN StripWhitespace(SubSeq(s, 1, Len(s) - 1))
    ELSE s

\* the list of mapped tokens, provided the mapping function accepts them all
MappedList(mapping_func, tokens) ==
    (\A i \in DOMAIN tokens : Returned(Apply(mapping_func, tokens[i]))) =>
        result = Return("list", [i \in DOMAIN tokens |-> Apply(mapping_func, tokens[i]).value[1]])

\* C6: a sequence of strings yields mapping_fn of every whitespace-normalised
\* element, a string without ' - ' yields mapping_fn of every comma separated
\* segment stripped of surrounding whitespace; one entry per token, in order.
C6_SequenceAndDelimited ==
    /\ (/\ IsParse
        /\ call.user_input.type = "seq"
        /\ \A i \in DOMAIN call.user_input.items : call.user_input.items[i].isstr) =>
            MappedList(call.mapping_func,
                       [i \in DOMAIN call.user_input.items |->
                            normalize_spaces(call.user_input.items[i].s)])
    /\ (/\ IsStrParse
        /\ call.fn = "parse_user_input"
        /\ ~str_contains(call.user_input.text, Dash)) =>
            LET segments == str_split_on(call.user_input.text, ",")
            IN  MappedList(call.mapping_func,
                           [i \in DOMAIN segments |-> StripWhitespace(segments[i])])

\* C7: every failure of the composite parser is the parsing error.
C7_OnlyParsingErrors == (IsParse /\ Raised(result)) => IsParsingError(result)

(***************************************************************************)
(* Time ranges on the endpoints-only path: parse_time_range                *)
(* (stem_analytics) and the call filter_by_time_of_day makes,              *)
(* parse_user_input(time_range, parse_time, ()).                           *)
(***************************************************************************)
HourTexts == {<<"0">>, <<"9">>, <<"1","2">>, <<"2","1">>, <<"2","4">>}

MinuteTexts == {<<>>, <<":","3","0">>}

SuffixTexts == {<<>>, <<"a","m">>, <<"p","m">>, <<" ","P","M">>}

TimeTexts == {h \o m \o x : h \in HourTexts, m \in MinuteTexts, x \in SuffixTexts}

RangeSeparators == {Dash, <<"-">>, <<" "," ","-"," ">>}

TimeRangeTexts == {l \o sep \o r : l \in TimeTexts, sep \in RangeSeparators, r \in TimeTexts}

InitRange ==
    /\ table = NoTable
    /\ db = {}
    /\ \/ \E t \in TimeRangeTexts :
             call = [fn |-> "parse_user_input", user_input |-> StrInput(t),
                     mapping_func |-> "parse_time", values_to_slice |-> <<>>]
       \/ \E t \in TimeRangeTexts :
             call = [fn |-> "parse_time_range", user_input |-> StrInput(t)]
    /\ result = NoResult

ParseTimeRange ==
    /\ Pending("parse_time_range")
    /\ result' = parse_time_range(call.user_input)
    /\ UNCHANGED <<table, db, call>>

NextRange == ParseUserInput \/ ParseTimeRange

SpecRange == InitRange /\ [][NextRange]_vars

\* s sorts before t, character by character in the order 0 < 1 < ... < 9
RECURSIVE TimeBefore(_, _)
TimeBefore(s, t) ==
    IF s = <<>> \/ t = <<>> THEN FALSE
    ELSE IF Head(s) = Head(t) THEN TimeBefore(Tail(s), Tail(t))
    ELSE Head(s) = ":" \/ (Head(t) # ":" /\ DigitVal(Head(s)) < DigitVal(Head(t)))

\* C5: a pair returned for a dashed time range on the endpoints-only path
\* never has its start after its end: a range whose left endpoint is later
\* than its right one (such as '9pm - 9am') is rejected with a parsing error,
\* neither returned as given nor swapped.
C5_EndpointsOrdered ==
    (Done /\ call.fn \in {"parse_user_input", "parse_time_range"}
          /\ Returned(result) /\ result.shape = "pair") =>
        ~TimeBefore(result.value[2], result.value[1])

(***************************************************************************)
(* Calls of the course parsers: course names put together from a subject,  *)
(* an optional number and an optional section, against the records of at   *)
(* most MaxCourses rows of the tutor_requests table.                       *)
(***************************************************************************)
TutorRequestCourses ==
    {<<<<"M","a","t","h","e","m","a","t","i","c","s">>, <<"1","A">>, <<"1">>>>,
     <<<<"M","a","t","h","e","m","a","t","i","c","s">>, <<"1","A">>, <<"2">>>>,
     <<<<"M","a","t","h","e","m","a","t","i","c","s">>, <<"1","B">>, <<"1">>>>,
     <<<<"P","h","y","s","i","c","s">>, <<"4","A">>, <<"1">>>>,
     <<<<"P","h","y","s","i","c","s">>, <<"4","A">>, <<>>>>,
     <<<<"C","o","m","p","u","t","e","r"," ","S","c","i","e","n","c","e">>, <<"1","C">>, <<"1","W">>>>}

Databases == {rows \in SUBSET TutorRequestCourses : Cardinality(rows) <= MaxCourses}

SubjectTexts ==
    {<<"m","a","t","h">>,
     <<"M","a","t","h","e","m","a","t","i","c","s">>,
     <<"C","o","m","p","u","t","e","r"," ","S","c","i","e","n","c","e">>,
     <<"p","h","y","s">>,
     <<"c","s">>,
     <<"c","o","m","p","u","t","e","r"," ","s","c","i","e","n","c","e">>,
     <<"c","h","e","m">>,
     <<"b","a","s","k","e","t">>,
     <<"m","a","t","h",".">>}

NumberTexts ==
    {<<>>, <<"1","a">>, <<"0","1","A">>, <<"F","0","0","1","B">>, <<"4","a">>, <<"0","0">>, <<"1","c">>}

SectionTexts == {<<>>, <<"1">>, <<"0","2">>, <<"1","w">>}

Gaps == {<<" ">>, <<" ", " ">>}

CourseTexts ==
    {subject \o (IF number = <<>> THEN <<>>
                 ELSE gap \o number \o (IF section = <<>> THEN <<>> ELSE gap \o section)) :
         subject \in SubjectTexts, number \in NumberTexts,
         section \in SectionTexts, gap \in Gaps}

InitCourse ==
    /\ table = NoTable
    /\ db \in Databases
    /\ \/ \E t \in CourseTexts, check_records \in BOOLEAN :
             call = [fn |-> "parse_course", course_name |-> t,
                     check_records |-> check_records]
       \/ \E t \in CourseTexts, as_tuple \in BOOLEAN :
             call = [fn |-> "parse_full_course_name", course_name |-> t,
                     as_tuple |-> as_tuple]
    /\ result = NoResult

ParseCourse ==
    /\ Pending("parse_course")
    /\ result' = parse_course(call.course_name, call.check_records, db)
    /\ UNCHANGED <<table, db, call>>

ParseFullCourseName ==
    /\ Pending("parse_full_course_name")
    /\ result' = parse_full_course_name(call.course_name, call.as_tuple, db)
    /\ UNCHANGED <<table, db, call>>

NextCourse == ParseCourse \/ ParseFullCourseName

SpecCourse == InitCourse /\ [][NextCourse]_vars

(***************************************************************************)
(* Properties of the course parsers.                                       *)
(***************************************************************************)
\* the records each parser consults
Records ==
    IF call.fn = "parse_course" THEN get_set_of_all_courses(db)
    ELSE get_set_of_all_courses_by_columns(db)

\* a call that checks the course against the records
IsCheckedCourse ==
    /\ Done
    /\ \/ call.fn = "parse_course" /\ call.check_records
       \/ call.fn = "parse_full_course_name"

SubjectTable ==
    IF call.fn = "parse_course" THEN ALL_SUBJECTS ELSE course_subject_types_all

\* the canonical subject the input resolves to, <<>> when it resolves to none
ResolvedSubject ==
    LET row == FirstRowWith(SubjectTable, CourseComponents(call.course_name).subject)
    IN  IF row = 0 THEN <<>> ELSE SubjectTable.names[row]

\* C8: when the subject resolves but is not in the records, the checked
\* course parser fails with the parsing error saying that the subject is not
\* on record.
C8_SubjectNotOnRecord ==
    (IsCheckedCourse /\ ResolvedSubject # <<>> /\ ResolvedSubject \notin Records) =>
        (IsParsingError(result) /\ result.msg = "subject is not on record")

\* the candidates the checked parser looks up in the records
Candidate ==
    LET c == CourseComponents(call.course_name)
    IN  [full |-> JoinCourse(ResolvedSubject, c.number, c.section),
         without_section |-> str_strip(str_join(<<" ">>, <<ResolvedSubject, c.number>>))]

SectionDiagnostic == IsParsingError(result) /\ result.msg = "course has no section on record"

NumberDiagnostic ==
    IsParsingError(result) /\ result.msg = "subject has no course number on record"

\* C9: with the resolved subject on record, a candidate 'subject number
\* section' missing from the records while 'subject number' is there fails
\* with the parsing error naming the missing section; when neither is there
\* it fails with the parsing error naming the missing course number; the
\* section diagnostic is never given when the number is the unknown part, nor
\* the number diagnostic when the section is.
C9_SectionOrNumberDiagnostic ==
    (IsCheckedCourse /\ ResolvedSubject # <<>> /\ ResolvedSubject \in Records) =>
        /\ (Candidate.full \notin Records /\ Candidate.without_section \in Records)
               => SectionDiagnostic
        /\ (Candidate.full \notin Records /\ Candidate.without_section \notin Records)
               => NumberDiagnostic
        /\ SectionDiagnostic => Candidate.without_section \in Records
        /\ NumberDiagnostic => Candidate.without_section \notin Records

\* the docstring's case: 'Mathematics 1A' is on record, its section 2 is not
C9_Witness ==
    /\ IsCheckedCourse
    /\ call.fn = "parse_course"
    /\ ResolvedSubject \in Records
    /\ CourseComponents(call.course_name).number # <<>>
    /\ CourseComponents(call.course_name).section # <<>>
    /\ Candidate.full \notin Records
    /\ Candidate.without_section \in Records
    /\ SectionDiagnostic

\* C10: with check_records true every value parse_course returns is a member
\* of the records of that call; no string absent from the records is returned.
C10_ReturnedCourseOnRecord ==
    (Done /\ call.fn = "parse_course" /\ call.check_records /\ Returned(result)) =>
        (result.shape = "scalar" /\ result.value[1] \in get_set_of_all_courses(db))

\* a course with number and section returned from the records
C10_Witness ==
    /\ Done
    /\ call.fn = "parse_course"
    /\ call.check_records
    /\ Returned(result)
    /\ CourseComponents(call.course_name).section # <<>>
    /\ result.value[1] = Candidate.full
    /\ result.value[1] \in get_set_of_all_courses(db)

\* the call again, on the course it returned
Reparsed ==
    IF call.fn = "parse_course"
    THEN parse_course(result.value[1], call.check_records, db)
    ELSE parse_full_course_name(result.value[1], FALSE, db)

\* C11: parse_course of a canonical subject name returns that name, and a
\* returned course with empty number and section parses to itself again.
C11_CanonicalSubjectStable ==
    /\ (Done /\ call.fn = "parse_course" /\ ~call.check_records
             /\ call.course_name \in Range(ALL_SUBJECTS.names)) =>
           (Returned(result) /\ result.value = <<call.course_name>>)
    /\ (Done /\ Returned(result) /\ result.shape = "scalar"
             /\ CourseComponents(call.course_name).number = <<>>
             /\ CourseComponents(call.course_name).section = <<>>) =>
           Reparsed = result

\* the non-empty components joined by single spaces
JoinNonEmpty(parts) == str_join(<<" ">>, SelectSeq(parts, LAMBDA part : part # <<>>))

\* C12: with check_records false parse_course returns the canonical subject,
\* the stripped number and the stripped section joined by single spaces, empty
\* components omitted, whatever the course records hold.
C12_UncheckedCourseJoined ==
    (Done /\ call.fn = "parse_course" /\ ~call.check_records /\ ResolvedSubject # <<>>) =>
        LET c == CourseComponents(call.course_name)
        IN  /\ Returned(result)
            /\ result.value = <<JoinNonEmpty(<<ResolvedSubject, c.number, c.section>>)>>
            /\ result = parse_course(call.course_name, FALSE, {})

(***************************************************************************)
(* Calls of the quarter parsers: a term alias, alone or followed by a year  *)
(* alias, single, in pairs around a separator, or in a sequence.            *)
(***************************************************************************)
TermTexts == {<<"f">>, <<"F">>, <<"F","a","l","l">>, <<"w">>, <<"W","i","n","t","e","r">>, <<"s","p">>, <<"u">>, <<"1">>, <<"x">>}

YearTexts == {<<"1","3">>, <<"2","0","1","3">>, <<"1","4">>, <<"2","0","1","4">>, <<"1","5">>, <<"9","9">>, <<"3">>}

QuarterTexts == TermTexts \cup {t \o <<" ">> \o y : t \in TermTexts, y \in YearTexts}

QuarterSeparators == {Dash, <<",">>}

QuartersInputs ==
    {StrInput(q) : q \in QuarterTexts}
        \cup {StrInput(l \o sep \o r) :
                  l \in QuarterTexts, sep \in QuarterSeparators, r \in QuarterTexts}
        \cup {SeqInput(<<StrItem(l), StrItem(r)>>) : l \in YearTexts, r \in QuarterTexts}
        \cup {OtherInput}

InitQuarter ==
    /\ table = NoTable
    /\ db = {}
    /\ \/ \E q \in QuartersInputs, with_year \in BOOLEAN :
             call = [fn |-> "parse_quarters", quarters |-> q, with_year |-> with_year]
       \/ \E q \in QuarterTexts, with_year \in BOOLEAN :
             call = [fn |-> "parse_quarter", quarter |-> q, with_year |-> with_year]
    /\ result = NoResult

ParseQuarters ==
    /\ Pending("parse_quarters")
    /\ result' = parse_quarters(call.quarters, call.with_year)
    /\ UNCHANGED <<table, db, call>>

ParseQuarter ==
    /\ Pending("parse_quarter")
    /\ result' = parse_quarter(call.quarter, call.with_year)
    /\ UNCHANGED <<table, db, call>>

NextQuarter == ParseQuarters \/ ParseQuarter

SpecQuarter == InitQuarter /\ [][NextQuarter]_vars

(***************************************************************************)
(* Properties of the quarter parsers.                                      *)
(***************************************************************************)
\* position of a term in the academic year: Winter, Spring, Summer, Fall
TermRank(term) ==
    CASE term = <<"W","i","n","t","e","r">> -> 0
      [] term = <<"S","p","r","i","n","g">> -> 1
      [] term = <<"S","u","m","m","e","r">> -> 2
      [] term = <<"F","a","l","l">> -> 3

\* position of a canonical 'Term YYYY' in the academic ordering
QuarterRank(q) ==
    LET parts == str_partition(q, <<" ">>)
    IN  4 * DigitsValue(parts[2]) + TermRank(parts[1])

\* the canonical quarter at a position of the academic ordering
QuarterAt(rank) ==
    CHOOSE q \in {t \o <<" ">> \o py_str(rank \div 4) :
                      t \in {<<"W","i","n","t","e","r">>, <<"S","p","r","i","n","g">>, <<"S","u","m","m","e","r">>, <<"F","a","l","l">>}} :
        QuarterRank(q) = rank

\* a call of parse_quarters on 'q1 - q2' whose two sides denote quarters
IsQuarterRange ==
    /\ Done
    /\ call.fn = "parse_quarters"
    /\ call.with_year
    /\ call.quarters.type = "str"
    /\ str_contains(call.quarters.text, Dash)
    /\ LET parts == str_partition(call.quarters.text, Dash)
       IN  /\ Returned(parse_quarters_parse_quarter(parts[1], TRUE))
           /\ Returned(parse_quarters_parse_quarter(parts[2], TRUE))

RangeLeft ==
    parse_quarters_parse_quarter(str_partition(call.quarters.text, Dash)[1], TRUE).value[1]

RangeRight ==
    parse_quarters_parse_quarter(str_partition(call.quarters.text, Dash)[2], TRUE).value[1]

\* C13: parse_quarters of 'q1 - q2' with q1 strictly before q2 in the academic
\* ordering (Winter, Spring, Summer, Fall within ascending years) returns
\* exactly the consecutive quarters from q1 to q2 inclusive, in that order, as
\* canonical 'Term YYYY' strings.
C13_QuarterRangeExpanded ==
    (IsQuarterRange /\ QuarterRank(RangeLeft) < QuarterRank(RangeRight)) =>
        /\ Returned(result)
        /\ result.shape = "list"
        /\ Len(result.value) = QuarterRank(RangeRight) - QuarterRank(RangeLeft) + 1
        /\ \A k \in DOMAIN result.value :
              result.value[k] = QuarterAt(QuarterRank(RangeLeft) + k - 1)

\* 'w 14 - w 15' gives the five quarters Winter 2014 .. Winter 2015
C13_Witness ==
    /\ IsQuarterRange
    /\ call.quarters.text = <<"w"," ","1","4"," ","-"," ","w"," ","1","5">>
    /\ result.value = <<<<"W","i","n","t","e","r"," ","2","0","1","4">>, <<"S","p","r","i","n","g"," ","2","0","1","4">>, <<"S","u","m","m","e","r"," ","2","0","1","4">>, <<"F","a","l","l"," ","2","0","1","4">>, <<"W","i","n","t","e","r"," ","2","0","1","5">>>>

\* the text of a call on one quarter
QuarterText ==
    IF call.fn = "parse_quarter" THEN call.quarter ELSE call.quarters.text

\* a call on one quarter given as a term alias in any letter case, a space
\* and a two- or four-digit alias of a year
IsQuarterWithYear ==
    /\ Done
    /\ call.with_year
    /\ \/ call.fn = "parse_quarter"
       \/ call.fn = "parse_quarters" /\ call.quarters.type = "str"
    /\ LET parts == str_partition(QuarterText, <<" ">>)
       IN  /\ \E term \in Range(QUARTERS.names) :
                 str_lower(parts[1]) \in QUARTERS.aliases[term]
           /\ \E yr \in Range(YEARS.names) : parts[2] \in YEARS.aliases[yr]

\* '<TermName> <4-digit-year>' for the term and the year the text names
CanonicalQuarter ==
    LET parts == str_partition(QuarterText, <<" ">>)
        term  == CHOOSE t \in Range(QUARTERS.names) :
                     str_lower(parts[1]) \in QUARTERS.aliases[t]
        yr    == IF Len(parts[2]) = 2 THEN <<"2", "0">> \o parts[2] ELSE parts[2]
    IN  term \o <<" ">> \o yr

\* C14: every alias of a term, in any letter case, followed by a two- or
\* four-digit alias of a year parses to the one canonical string
\* '<TermName> <4-digit-year>', and the canonical string parses to itself.
C14_QuarterCanonical ==
    IsQuarterWithYear =>
        /\ Returned(result)
        /\ result.value = <<CanonicalQuarter>>
        /\ parse_quarter(CanonicalQuarter, TRUE) = Return("scalar", <<CanonicalQuarter>>)
        /\ parse_quarters_parse_quarter(CanonicalQuarter, TRUE)
               = Return("scalar", <<CanonicalQuarter>>)

\* 'F 13' gives 'Fall 2013'
C14_Witness ==
    /\ IsQuarterWithYear
    /\ call.fn = "parse_quarter"
    /\ call.quarter = <<"F"," ","1","3">>
    /\ result.value = <<<<"F","a","l","l"," ","2","0","1","3">>>>

(***************************************************************************)
(* Calls of parse_days, parse_weeks_in_quarter and parse_years: one token,  *)
(* two tokens around a separator, a sequence of tokens, or an int.          *)
(***************************************************************************)
DayTexts == {<<"1">>, <<"7">>, <<"m">>, <<"m","o">>, <<"m","o","n">>, <<"m","o","n","d","a","y">>, <<"w">>, <<"s","u">>, <<"8">>, <<"x">>}

WeekTexts == {<<"0">>, <<"1">>, <<"6">>, <<"7">>, <<"1","1">>, <<"1","2">>, <<"x">>}

UnitSeparators == {Dash, <<",">>, <<"-">>}

\* the inputs made of the given tokens
TokenInputs(tokens) ==
    {StrInput(t) : t \in tokens}
        \cup {StrInput(l \o sep \o r) : l \in tokens, sep \in UnitSeparators, r \in tokens}
        \cup {SeqInput(<<StrItem(l), item>>) :
                  l \in tokens, item \in {StrItem(r) : r \in tokens} \cup {IntItem}}
        \cup {OtherInput}

InitUnits ==
    /\ table = NoTable
    /\ db = {}
    /\ \/ \E days \in TokenInputs(DayTexts) : call = [fn |-> "parse_days", days |-> days]
       \/ \E weeks \in TokenInputs(WeekTexts), is_summer \in BOOLEAN :
             call = [fn |-> "parse_weeks_in_quarter", weeks_in_quarter |-> weeks,
                     is_summer |-> is_summer]
       \/ \E years \in TokenInputs(YearTexts) : call = [fn |-> "parse_years", years |-> years]
    /\ result = NoResult

ParseDays ==
    /\ Pending("parse_days")
    /\ result' = parse_days(call.days)
    /\ UNCHANGED <<table, db, call>>

ParseWeeksInQuarter ==
    /\ Pending("parse_weeks_in_quarter")
    /\ result' = parse_weeks_in_quarter(call.weeks_in_quarter, call.is_summer)
    /\ UNCHANGED <<table, db, call>>

ParseYears ==
    /\ Pending("parse_years")
    /\ result' = parse_years(call.years)
    /\ UNCHANGED <<table, db, call>>

NextUnits == ParseDays \/ ParseWeeksInQuarter \/ ParseYears

SpecUnits == InitUnits /\ [][NextUnits]_vars

(***************************************************************************)
(* Properties of parse_days, parse_weeks_in_quarter and parse_years.        *)
(***************************************************************************)
\* the two sides of a dashed text
Sides(text) == str_partition(text, Dash)

IsDaysText == Done /\ call.fn = "parse_days" /\ call.days.type = "str"

\* C15: parse_days resolves a weekday given as a number 1..7, an abbreviation
\* or a full name to the canonical weekday name, and 'd1 - d2' with d1 before
\* d2 in the order Monday..Sunday to every weekday from d1 to d2 inclusive.
C15_DaysResolved ==
    IsDaysText =>
        \A d1, d2 \in Range(weekday.names) :
            /\ call.days.text \in weekday.aliases[d1] =>
                   result = Return("list", <<d1>>)
            /\ (/\ str_contains(call.days.text, Dash)
                /\ Sides(call.days.text)[1] \in weekday.aliases[d1]
                /\ Sides(call.days.text)[2] \in weekday.aliases[d2]
                /\ ListIndex(weekday.names, d1) < ListIndex(weekday.names, d2)) =>
                   result = Return("list", SubSeq(weekday.names,
                                                  ListIndex(weekday.names, d1),
                                                  ListIndex(weekday.names, d2)))

IsYearsText == Done /\ call.fn = "parse_years" /\ call.years.type = "str"

\* a two-digit token 'YY' or a four-digit token '20YY'
IsYearToken(t) ==
    /\ str_isdigit(t)
    /\ \/ Len(t) = 2
       \/ Len(t) = 4 /\ SubSeq(t, 1, 2) = <<"2", "0">>

\* the four-digit year a token names
CanonicalYear(t) == IF Len(t) = 2 THEN <<"2", "0">> \o t ELSE t

\* C16: parse_years resolves 'YY' and '20YY' to the same canonical year,
\* accepts comma-delimited tokens, and for 'y1 - y2' with y1 before y2 returns
\* every canonical year from y1 to y2 inclusive.
C16_YearsResolved ==
    IsYearsText =>
        LET text  == call.years.text
            sides == Sides(text)
            items == str_partition(text, <<",">>)
        IN  /\ IsYearToken(text) => result = Return("list", <<CanonicalYear(text)>>)
            /\ (/\ str_contains(text, <<",">>)
                /\ IsYearToken(items[1])
                /\ IsYearToken(items[2])) =>
                   result = Return("list", <<CanonicalYear(items[1]), CanonicalYear(items[2])>>)
            /\ (/\ str_contains(text, Dash)
                /\ IsYearToken(sides[1])
                /\ IsYearToken(sides[2])
                /\ DigitsValue(CanonicalYear(sides[1])) < DigitsValue(CanonicalYear(sides[2]))) =>
                   /\ Returned(result)
                   /\ result.shape = "list"
                   /\ Len(result.value) = DigitsValue(CanonicalYear(sides[2]))
                                              - DigitsValue(CanonicalYear(sides[1])) + 1
                   /\ \A k \in DOMAIN result.value :
                         result.value[k] = py_str(DigitsValue(CanonicalYear(sides[1])) + k - 1)

\* a call of parse_weeks_in_quarter on one token
IsWeekText ==
    /\ Done
    /\ call.fn = "parse_weeks_in_quarter"
    /\ call.weeks_in_quarter.type = "str"
    /\ ~str_contains(call.weeks_in_quarter.text, Dash)
    /\ ~str_contains(call.weeks_in_quarter.text, <<",">>)

\* the week numbers of a table are consecutive integers
Contiguous(weeks) ==
    \A i \in 1..(Len(weeks) - 1) : weeks[i + 1] = py_str(DigitsValue(weeks[i]) + 1)

\* C17: parse_weeks_in_quarter accepts exactly the weeks of the table selected
\* by is_summer; each table is one contiguous range of integers, the summer
\* range is the shorter one, and with is_summer true a week beyond the summer
\* session (the last week of a regular quarter) is rejected with the parsing
\* error.
C17_WeeksBySession ==
    IsWeekText =>
        LET text  == call.weeks_in_quarter.text
            weeks == IF call.is_summer THEN week_in_summer_quarter.names
                     ELSE week_in_quarter.names
        IN  /\ Contiguous(week_in_quarter.names)
            /\ Contiguous(week_in_summer_quarter.names)
            /\ text \in Range(weeks) => result = Return("list", <<text>>)
            /\ text \notin Range(weeks) => IsParsingError(result)
            /\ (call.is_summer /\ text = week_in_quarter.names[Len(week_in_quarter.names)])
                   => IsParsingError(result)

(***************************************************************************)
(* Calls of parse_courses: one course name, two names around a separator,  *)
(* a sequence of one or two elements, or an int, against the records.      *)
(***************************************************************************)
CourseListTexts ==
    {<<"m","a","t","h">>,
     <<"m","a","t","h"," ","1","a">>,
     <<"m","a","t","h"," ","1","a"," ","-"," ","2">>,
     <<"p","h","y","s"," ","4","a"," ","1">>,
     <<"b","a","s","k","e","t">>,
     <<" ","-"," ">>,
     <<"c","s"," ","1","c"," ","1","w">>}

CourseListItems == {StrItem(t) : t \in CourseListTexts} \cup {IntItem}

CoursesInputs ==
    {StrInput(t) : t \in CourseListTexts}
        \cup {StrInput(l \o sep \o r) :
                  l \in CourseListTexts, sep \in {Dash, <<",">>}, r \in CourseListTexts}
        \cup {SeqInput(<<item>>) : item \in CourseListItems}
        \cup {SeqInput(<<StrItem(l), item>>) : l \in CourseListTexts, item \in CourseListItems}
        \cup {OtherInput}

InitCourses ==
    /\ table = NoTable
    /\ db \in Databases
    /\ \E course_names \in CoursesInputs, as_tuple \in BOOLEAN :
          call = [fn |-> "parse_courses", course_names |-> course_names,
                  as_tuple |-> as_tuple]
    /\ result = NoResult

ParseCourses ==
    /\ Pending("parse_courses")
    /\ result' = parse_courses(call.course_names, call.as_tuple)
    /\ UNCHANGED <<table, db, call>>

NextCourses == ParseCourses

SpecCourses == InitCourses /\ [][NextCourses]_vars

\* the input holds the range marker: the string does, or an element of the
\* sequence does
HasRangeMarker ==
    \/ call.course_names.type = "str" /\ str_contains(call.course_names.text, Dash)
    \/ call.course_names.type = "seq" /\
           \E i \in DOMAIN call.course_names.items :
               /\ call.course_names.items[i].isstr
               /\ str_contains(call.course_names.items[i].s, Dash)

DashedCoursesError == IsParsingError(result) /\ result.msg = "course input cannot be dashed"

\* C18: parse_courses rejects an input holding ' - ' (a string, or a sequence
\* with such an element) with the parsing error for dashed course input,
\* before any element reaches the course parser; any other input has each
\* element parsed by the course parser.
C18_DashedCoursesRejected ==
    (Done /\ call.fn = "parse_courses" /\ call.course_names.type # "other") =>
        /\ HasRangeMarker => DashedCoursesError
        /\ (/\ ~HasRangeMarker
            /\ call.course_names.type = "seq"
            /\ Len(call.course_names.items) = 1
            /\ call.course_names.items[1].isstr) =>
               LET parsed == parse_full_course_name(
                                 normalize_spaces(call.course_names.items[1].s),
                                 call.as_tuple, db)
               IN  IF Raised(parsed) THEN result = parsed
                   ELSE result = Return("list", IF call.as_tuple THEN <<parsed.value>>
                                                ELSE parsed.value)

(***************************************************************************)
(* Calls of parse_datetimes: a date with an optional time, two of them     *)
(* around a separator, a sequence of one or two elements, or an int.       *)
(***************************************************************************)
DateTexts ==
    {<<"2","0","1","1","-","1","2","-","2","5">>, <<"2","0","1","1","/","1","2","/","2","5">>, <<"2","0","1","2","/","0","2","/","2","9">>, <<"2","0","1","1","/","0","2","/","2","9">>, <<"2","0","1","2","/","1","3","/","0","1">>, <<"x">>}

ClockTexts ==
    {<<>>, <<"0","0",":","0","0">>, <<"0",":","0",":","1">>, <<"2","3",":","0","0">>, <<"2","5",":","0","0">>}

DatetimeTexts ==
    {d \o (IF t = <<>> THEN <<>> ELSE <<" ">> \o t) : d \in DateTexts, t \in ClockTexts}
        \cup {<<>>}

DatetimeSeparators == {Dash, <<" "," ","-"," "," ">>, <<",">>, <<"-">>}

DatetimeItems == {StrItem(t) : t \in DatetimeTexts} \cup {StrItem(Dash), IntItem}

DatetimesInputs ==
    {StrInput(t) : t \in DatetimeTexts}
        \cup {StrInput(l \o sep \o r) :
                  l \in DatetimeTexts, sep \in DatetimeSeparators, r \in DatetimeTexts}
        \cup {SeqInput(<<item>>) : item \in DatetimeItems}
        \cup {SeqInput(<<StrItem(l), item>>) : l \in DatetimeTexts, item \in DatetimeItems}
        \cup {OtherInput}

InitDatetime ==
    /\ table = NoTable
    /\ db = {}
    /\ \E datetimes \in DatetimesInputs, as_datetime \in BOOLEAN :
          call = [fn |-> "parse_datetimes", datetimes |-> datetimes,
                  as_datetime |-> as_datetime]
    /\ result = NoResult

ParseDatetimes ==
    /\ Pending("parse_datetimes")
    /\ result' = parse_datetimes(call.datetimes, call.as_datetime)
    /\ UNCHANGED <<table, db, call>>

NextDatetime == ParseDatetimes

SpecDatetime == InitDatetime /\ [][NextDatetime]_vars

\* a finished call on a string 'L - R'
IsDatetimeRangeCall ==
    /\ Done
    /\ call.fn = "parse_datetimes"
    /\ call.datetimes.type = "str"
    /\ str_contains(call.datetimes.text, Dash)

\* the datetimes on the two sides of the first ' - '
RangeSides == str_partition(call.datetimes.text, Dash)

LeftDatetime == cast_to_dt(normalize_spaces(RangeSides[1]))

RightDatetime == cast_to_dt(normalize_spaces(RangeSides[2]))

Canonical(ts) == IF call.as_datetime THEN ts ELSE TimestampStr(ts)

\* C19: for a dashed datetime range 'L - R' whose sides are datetimes, the
\* pair of canonical datetimes is returned only when the left value is
\* strictly before the right one; with equal values or a later left value
\* the call fails with a parsing error.
C19_DatetimeRangeStrictlyOrdered ==
    (IsDatetimeRangeCall /\ Returned(LeftDatetime) /\ Returned(RightDatetime)) =>
        IF TimestampBefore(LeftDatetime.value[1], RightDatetime.value[1])
        THEN result = Return("pair", <<Canonical(LeftDatetime.value[1]),
                                       Canonical(RightDatetime.value[1])>>)
        ELSE IsParsingError(result)

\* two spellings of one datetime around the dash are rejected
C19_Witness ==
    /\ IsDatetimeRangeCall
    /\ Returned(LeftDatetime) /\ Returned(RightDatetime)
    /\ RangeSides[1] # RangeSides[2]
    /\ LeftDatetime.value = RightDatetime.value
    /\ IsParsingError(result)

\* the input holds the range marker: the string does, or an element of the
\* sequence does
HasDatetimeRangeMarker ==
    \/ call.datetimes.type = "str" /\ str_contains(call.datetimes.text, Dash)
    \/ call.datetimes.type = "seq" /\
           \E i \in DOMAIN call.datetimes.items :
               /\ call.datetimes.items[i].isstr
               /\ str_contains(call.datetimes.items[i].s, Dash)

\* C20: the shape of what parse_datetimes returns follows from the shape of
\* its input alone: with the range marker ' - ' it is a pair of two values,
\* without it a list (of one value for a single datetime), never a pair.
C20_DatetimeShapeFollowsInput ==
    (Done /\ call.fn = "parse_datetimes" /\ Returned(result)) =>
        /\ HasDatetimeRangeMarker => (result.shape = "pair" /\ Len(result.value) = 2)
        /\ ~HasDatetimeRangeMarker => result.shape = "list"
        /\ (/\ call.datetimes.type = "str"
            /\ ~HasDatetimeRangeMarker
            /\ str_count(call.datetimes.text, ",") = 0) =>
               result.value = <<Canonical(cast_to_dt(normalize_spaces(
                                    call.datetimes.text)).value[1])>>

\* two datetimes given without the marker come back as a list of two
C20_Witness ==
    /\ Done
    /\ call.fn = "parse_datetimes"
    /\ ~HasDatetimeRangeMarker
    /\ Returned(result)
    /\ result.shape = "list"
    /\ Len(result.value) = 2

(***************************************************************************)
(* Calls of parse_time_of_day and parse_time on one time text: an hour,    *)
(* optional minutes and seconds, an optional am/pm suffix.                 *)
(***************************************************************************)
ClockHours == {<<>>, <<"0">>, <<"9">>, <<"0","9">>, <<"1","2">>, <<"1","3">>, <<"2","3">>, <<"2","4">>}

ClockMinutes == {<<>>, <<":","0">>, <<":","3","0">>, <<":","6","0">>}

ClockSeconds == {<<>>, <<":","5","9">>, <<":","6","0">>, <<":","1",":","2">>}

ClockSuffixes == {<<>>, <<"a","m">>, <<"P","M">>, <<" ","p","m">>, <<"A","m">>, <<"a">>}

ClockInputs ==
    {h \o m \o sec \o x :
        h \in ClockHours, m \in ClockMinutes, sec \in ClockSeconds, x \in ClockSuffixes}

InitTime ==
    /\ table = NoTable
    /\ db = {}
    /\ \E fn \in {"parse_time_of_day", "parse_time"}, time \in ClockInputs :
          call = [fn |-> fn, time |-> time]
    /\ result = NoResult

ParseTimeOfDay ==
    /\ Pending("parse_time_of_day")
    /\ result' = parse_time_of_day(call.time)
    /\ UNCHANGED <<table, db, call>>

ParseTime ==
    /\ Pending("parse_time")
    /\ result' = parse_time(call.time)
    /\ UNCHANGED <<table, db, call>>

NextTime == ParseTimeOfDay \/ ParseTime

SpecTime == InitTime /\ [][NextTime]_vars

\* the text as the claim reads it: lower case, spaces dropped, then the
\* suffix and the colon separated fields before it
ClockText == str_remove(str_lower(call.time), " ")

ClockSuffix ==
    IF str_endswith(ClockText, AM) THEN "am"
    ELSE IF str_endswith(ClockText, PM) THEN "pm" ELSE ""

ClockFields ==
    str_split_on(IF ClockSuffix = "" THEN ClockText
                 ELSE SubSeq(ClockText, 1, Len(ClockText) - 2), ":")

ClockNumber(i) == IF i <= Len(ClockFields) THEN DigitsValue(ClockFields[i]) ELSE 0

\* H[:MM[:SS]][am|pm] with every field in its range
IsClockShape ==
    /\ Len(ClockFields) \in 1..3
    /\ \A i \in DOMAIN ClockFields :
           Len(ClockFields[i]) \in {1, 2} /\ str_isdigit(ClockFields[i])
    /\ IF ClockSuffix = "" THEN ClockNumber(1) \in 0..23 ELSE ClockNumber(1) \in 1..12
    /\ ClockNumber(2) \in 0..59
    /\ ClockNumber(3) \in 0..59

ClockHour24 ==
    IF ClockSuffix = "" THEN ClockNumber(1)
    ELSE IF ClockSuffix = "am" THEN (IF ClockNumber(1) = 12 THEN 0 ELSE ClockNumber(1))
    ELSE IF ClockNumber(1) = 12 THEN 12 ELSE ClockNumber(1) + 12

TwoDigits(n) == IF n < 10 THEN <<"0">> \o py_str(n) ELSE py_str(n)

CalendarTexts ==
    {<<>>, <<"2","0","2","1","-","0","2","-","2","2">>, <<"2","0","2","1","/","0","2","/","2","2">>, <<"2","0","1","1",".","1","2",".","2","5">>, <<"9","/","2","5","/","2","0","1","3">>, <<"2","0","1","5","-","2","-","2">>, <<"2","0","2","1","-","0","2","-","3","0">>, <<"x">>}

DayTimeTexts == {<<>>, <<"0","0",":","0","0">>, <<"2","2",":","2",":","1">>, <<"1","1",":","4","8"," ","a","m">>, <<"2","5",":","0","0">>, <<"x">>}

WhiteSpaces == {<<" ">>, <<" "," ">>, <<"\t">>}

DateTimeInputs ==
    {lead \o d \o (IF t = <<>> THEN <<>> ELSE gap \o t) :
        lead \in {<<>>, <<" ">>}, d \in CalendarTexts, gap \in WhiteSpaces,
        t \in DayTimeTexts}
        \cup {d \o <<" ">> : d \in CalendarTexts}

InitDate ==
    /\ table = NoTable
    /\ db = {}
    /\ \/ \E dt \in DateTimeInputs, as_timestamp_object \in BOOLEAN :
             call = [fn |-> "parse_datetime", dt |-> dt,
                     as_timestamp_object |-> as_timestamp_object]
       \/ \E date \in DateTimeInputs, as_date_object \in BOOLEAN :
             call = [fn |-> "parse_date", date |-> date, as_date_object |-> as_date_object]
    /\ result = NoResult

ParseDatetime ==
    /\ Pending("parse_datetime")
    /\ result' = parse_datetime(call.dt, call.as_timestamp_object)
    /\ UNCHANGED <<table, db, call>>

ParseDate ==
    /\ Pending("parse_date")
    /\ result' = parse_date(call.date, call.as_date_object)
    /\ UNCHANGED <<table, db, call>>

NextDate == ParseDatetime \/ ParseDate

SpecDate == InitDate /\ [][NextDate]_vars

\* the date part and the time part: before and after the first white space
DateTimeParts == str_partition(normalize_spaces(call.dt), <<" ">>)

DatePart == parse_date(DateTimeParts[1], FALSE)

TimePart ==
    IF DateTimeParts[2] = <<>> THEN Return("scalar", <<<<"0","0",":","0","0",":","0","0">>>>)
    ELSE parse_time(DateTimeParts[2])

\* C22: parse_datetime splits its input at the first white space into a
\* date and an optional time and returns parse_date of the one combined with
\* parse_time of the other, midnight when there is no time; a missing date or
\* an invalid part is a parsing error.
C22_DatetimeCombinesDateAndTime ==
    (Done /\ call.fn = "parse_datetime" /\ ~call.as_timestamp_object) =>
        IF DateTimeParts[1] # <<>> /\ Returned(DatePart) /\ Returned(TimePart)
        THEN result = Return("scalar", <<DatePart.value[1] \o <<" ">> \o TimePart.value[1]>>)
        ELSE IsParsingError(result)

\* a date alone comes back at midnight
C22_Witness ==
    /\ Done
    /\ call.fn = "parse_datetime"
    /\ call.dt = <<"9","/","2","5","/","2","0","1","3">>
    /\ result.value = <<<<"2","0","1","3","-","0","9","-","2","5"," ","0","0",":","0","0",":","0","0">>>>

(***************************************************************************)
(* Constructions of an AliasTable and of a ParserDict from at most MaxRows *)
(* arguments: well formed pairs, pairs of the wrong length or type, and    *)
(* strings with and without characters outside letters, digits, spaces and *)
(* underscores.                                                            *)
(***************************************************************************)
Pair(name, aliases) ==
    [kind |-> "tuple", len |-> 2, name_is_str |-> TRUE, name |-> name,
     aliases_kind |-> "set", aliases |-> aliases, has_non_str |-> FALSE]

ConstructorArgs ==
    {Pair(<<"j","o","e">>, {<<"j","o">>}),
     Pair(<<"z","o","e">>, {<<"z","o">>, <<"z","_","o"," ","1">>}),
     Pair(<<"j","-","o">>, {<<"j","o">>}),
     Pair(<<"j","o","e">>, {<<"j",".","o">>}),
     Pair(<<"_">>, {<<"j","o">>}),
     Pair(<<>>, {<<"j","o">>}),
     Pair(<<"j","o","e">>, {<<" ">>}),
     [Pair(<<"j","o","e">>, {<<"j","o">>}) EXCEPT !.len = 1],
     [Pair(<<"j","o","e">>, {<<"j","o">>}) EXCEPT !.len = 3],
     [Pair(<<"j","o","e">>, {<<"j","o">>}) EXCEPT !.kind = "list"],
     [Pair(<<>>, {}) EXCEPT !.kind = "int", !.len = 0],
     [Pair(<<>>, {<<"j","o">>}) EXCEPT !.name_is_str = FALSE],
     [Pair(<<"j","o","e">>, {<<"j","o">>}) EXCEPT !.aliases_kind = "frozenset"],
     [Pair(<<"j","o","e">>, {<<"j","o">>}) EXCEPT !.aliases_kind = "list"],
     [Pair(<<"j","o","e">>, {<<"j","o">>}) EXCEPT !.has_non_str = TRUE]}

ConstructorArgLists == UNION {[1..n -> ConstructorArgs] : n \in 0..MaxRows}

InitConstruct ==
    /\ table = NoTable
    /\ db = {}
    /\ \E class \in {"AliasTable", "ParserDict"}, args \in ConstructorArgLists :
          call = [fn |-> class, args |-> args]
    /\ result = NoResult

\* the table exists only when __init__ returns
ConstructAliasTable ==
    /\ Pending("AliasTable")
    /\ result' = AliasTable_construct(call.args)
    /\ table' = IF Returned(result') THEN result'.value[1] ELSE table
    /\ UNCHANGED <<db, call>>

ConstructParserDict ==
    /\ Pending("ParserDict")
    /\ result' = ParserDict_construct(call.args)
    /\ table' = IF Returned(result') THEN result'.value[1] ELSE table
    /\ UNCHANGED <<db, call>>

NextConstruct == ConstructAliasTable \/ ConstructParserDict

SpecConstruct == InitConstruct /\ [][NextConstruct]_vars

\* a character other than a letter, a digit, a space or an underscore
HasForeignCharacter(entry) ==
    \E i \in DOMAIN entry : ~(IsAlnum(entry[i]) \/ entry[i] \in {" ", "_"})

\* the defects the claim names: not a pair of two items, a name that is no
\* string, aliases that are no true set of strings, a foreign character
IsDefective(pair) ==
    \/ pair.kind = "int"
    \/ pair.len # 2
    \/ ~pair.name_is_str
    \/ pair.aliases_kind # "set"
    \/ pair.has_non_str
    \/ \E entry \in {pair.name} \cup pair.aliases : HasForeignCharacter(entry)

IsConstruction ==
    /\ Done
    /\ call.fn \in {"AliasTable", "ParserDict"}
    /\ \A i \in DOMAIN call.args : call.args[i].kind # "list"

\* C23: a construction fails, with an error that is no parsing error and
\* without a table, when an argument is not a pair of a name and a true set of
\* aliases or when a name or alias holds a character other than a letter,
\* digit, space or underscore; every other construction succeeds and keeps the
\* names in the order of the arguments.
C23_ConstructionValidated ==
    IsConstruction =>
        IF \E i \in DOMAIN call.args : IsDefective(call.args[i])
        THEN Raised(result) /\ ~IsParsingError(result) /\ table = NoTable
        ELSE /\ Returned(result)
             /\ table.names = OrderedKeys(AsRows(call.args))

(***************************************************************************)
(* The three shapes of one input: tokens written as the dashed string of   *)
(* the first and the last, as the ', ' delimited string, and as the        *)
(* sequence, handed to parse_user_input and to _parse_input.               *)
(***************************************************************************)
ShapeTokens ==
    {<<"m">>, <<"t">>, <<"w">>, <<"r">>, <<"t","u","e">>, <<"M">>, <<"x">>}

TokenLists == UNION {[1..n -> ShapeTokens] : n \in 2..(MaxItems + 1)}

Shapes == {"dashed", "delimited", "sequence"}

ShapeInput(shape, tokens) ==
    CASE shape = "dashed" -> StrInput(tokens[1] \o Dash \o tokens[Len(tokens)])
      [] shape = "delimited" -> StrInput(str_join(<<",", " ">>, tokens))
      [] shape = "sequence" -> SeqInput([i \in DOMAIN tokens |-> StrItem(tokens[i])])

InitShapes ==
    /\ table = NoTable
    /\ db = {}
    /\ \E c \in ParserConfigs, tokens \in TokenLists, shape \in Shapes :
          call = [fn |-> c.fn, user_input |-> ShapeInput(shape, tokens),
                  mapping_func |-> c.mapping_func, values_to_slice |-> c.values_to_slice,
                  tokens |-> tokens, shape |-> shape]
    /\ result = NoResult

NextShapes == ParseUserInput \/ ParseInput

SpecShapes == InitShapes /\ [][NextShapes]_vars

\* the parser of the call on another input
ParserOn(user_input) ==
    IF call.fn = "parse_user_input"
    THEN parse_user_input(user_input, Callable(LAMBDA string : Apply(call.mapping_func, string)),
                          call.values_to_slice)
    ELSE _parse_input(user_input, Callable(LAMBDA string : Apply(call.mapping_func, string)),
                      call.values_to_slice)

\* the tokens map to values_to_slice[p], values_to_slice[p + 1], ... for some p
\* of an ordering without repetitions
MapsToConsecutive(tokens, mapping_func, values) ==
    /\ \A i, j \in DOMAIN values : values[i] = values[j] => i = j
    /\ \A i \in DOMAIN tokens : Returned(Apply(mapping_func, tokens[i]))
    /\ \E p \in DOMAIN values :
          /\ p + Len(tokens) - 1 <= Len(values)
          /\ \A i \in DOMAIN tokens :
                Apply(mapping_func, tokens[i]).value[1] = values[p + i - 1]

IsShapeParse == IsParse /\ "tokens" \in DOMAIN call

\* C24: for tokens whose mapped values are consecutive in values_to_slice, the
\* dashed string of the first and last token, the ', ' delimited string and
\* the sequence give the same result, the list of the mapped values, under
\* the same mapping function and values_to_slice.
C24_ShapesInterchangeable ==
    (IsShapeParse /\ MapsToConsecutive(call.tokens, call.mapping_func, call.values_to_slice)) =>
        /\ result = Return("list", [i \in DOMAIN call.tokens |->
                                       Apply(call.mapping_func, call.tokens[i]).value[1]])
        /\ \A shape \in Shapes : result = ParserOn(ShapeInput(shape, call.tokens))

C24_Witness ==
    /\ IsShapeParse
    /\ call.shape = "dashed"
    /\ call.tokens = <<<<"m">>, <<"t","u","e">>, <<"w">>>>
    /\ result = Return("list", SubSeq(WEEKDAYS.names, 1, 3))

(***************************************************************************)
(* Quarter of a date: _determine_quarter_by_date (app.py) and the cleaning *)
(* script (scripts/clean_data.py).  The quarter-dates table is the         *)
(* DataFrame of warehouse.get_quarter_dates(): rows of a quarter name (the *)
(* index) with start_date and end_date as Timestamps, in the order of the  *)
(* file.                                                                   *)
(***************************************************************************)
\* Timestamp.__le__
TimestampLe(a, b) == a = b \/ TimestampBefore(a, b)

\* the positions of the rows with start_date <= date <= end_date
RowsHolding(df, date) ==
    {i \in DOMAIN df : TimestampLe(df[i].start_date, date) /\ TimestampLe(date, df[i].end_date)}

_determine_quarter_by_date(date_string, df) ==
    LET date == cast_to_dt(date_string)
    IN  IF Raised(date) THEN date
        ELSE LET hits == RowsHolding(df, date.value[1])
             IN  IF hits = {}
                 THEN Raise("ValueError", "does not fall between dates of any archived quarters")
                 ELSE Return("scalar", <<df[CHOOSE i \in hits : \A j \in hits : i <= j].name>>)

\* QUARTERS[date_range_mask].index.values
MatchedRows(quarter_dates, date) ==
    LET Holds(row) == TimestampLe(row.start_date, date) /\ TimestampLe(date, row.end_date)
        hits == SelectSeq(quarter_dates, Holds)
    IN  [i \in DOMAIN hits |-> hits[i].name]

\* 'if matched_rows' is the truth value of a numpy array: False for no
\* element, the truth of the element for one, and a ValueError for more
_determine_quarter(date, quarter_dates) ==
    LET matched_rows == MatchedRows(quarter_dates, date)
    IN  IF Len(matched_rows) > 1
        THEN Raise("ValueError", "The truth value of an array with more than one element is ambiguous")
        ELSE IF Len(matched_rows) = 1 /\ matched_rows[1] # <<>>
        THEN Return("scalar", <<matched_rows[1]>>)
        ELSE Return("scalar", <<<<>>>>)

\* .time() of a parsed time or Timestamp
TimeOf(t) == [hour |-> t.hour, minute |-> t.minute, second |-> t.second]

\* the try of _extract_time: the time parse_time found, and on its failure
\* the time of the Timestamp parse_datetime found
TimeOrDatetime(time, dt) ==
    IF time.ok THEN Return("scalar", <<TimeOf(time)>>)
    ELSE IF Raised(dt) THEN dt
    ELSE Return("scalar", <<TimeOf(dt.value[1])>>)

_extract_time(dt) ==
    TimeOrDatetime(strptime(str_remove(str_lower(dt), " ")), parse_datetime(dt, TRUE))

SecondsOfDay(t) == (t.hour * 3600) + (t.minute * 60) + t.second

\* both Timestamps are of the same date: the components of t2 - t1 are
\* those of the difference modulo one day
_extract_elapsed_time(t1, t2) ==
    LET seconds == (SecondsOfDay(t2) - SecondsOfDay(t1)) % 86400
    IN  [hour |-> seconds \div 3600, minute |-> (seconds % 3600) \div 60, second |-> seconds % 60]

RECURSIVE DaysBeforeMonth(_, _)
DaysBeforeMonth(y, m) ==
    IF m = 1 THEN 0 ELSE DaysBeforeMonth(y, m - 1) + DaysInMonth(y, m - 1)

DayOfYear(d) == DaysBeforeMonth(d.year, d.month) + d.day

\* date.toordinal(): day 1 is 0001-01-01, a Monday
toordinal(d) ==
    LET y == d.year - 1
    IN  (y * 365) + (y \div 4) - (y \div 100) + (y \div 400) + DayOfYear(d)

isoweekday(d) == ((toordinal(d) + 6) % 7) + 1

WeeksInYear(y) ==
    LET jan1 == isoweekday([year |-> y, month |-> 1, day |-> 1])
    IN  IF jan1 = 4 \/ (IsLeapYear(y) /\ jan1 = 3) THEN 53 ELSE 52

\* Timestamp.weekofyear: the ISO 8601 week
weekofyear(d) ==
    LET week == (DayOfYear(d) - isoweekday(d) + 10) \div 7
    IN  IF week < 1 THEN WeeksInYear(d.year - 1)
        ELSE IF week > WeeksInYear(d.year) THEN 1
        ELSE week

\* QUARTERS.ix[quarter_term]['start_date']
StartOfQuarter(quarter_dates, quarter_term) ==
    quarter_dates[CHOOSE i \in DOMAIN quarter_dates : quarter_dates[i].name = quarter_term].start_date

_determine_week_in_quarter(date, quarter_term, quarter_dates) ==
    weekofyear(date) - weekofyear(StartOfQuarter(quarter_dates, quarter_term)) + 1

\* the new row of a request whose quarter and course are known
NewRow(time_of_request, time_of_service, quarter_, course, quarter_dates) ==
    IF Raised(quarter_) THEN quarter_
    ELSE IF quarter_.value[1] = <<>> THEN Return("tuple", <<>>)
    ELSE IF Raised(course) THEN course
    ELSE Return("tuple",
                <<time_of_request,
                  FormatTime(_extract_elapsed_time(time_of_request, time_of_service)),
                  course.value[1],
                  quarter_.value[1],
                  _determine_week_in_quarter(time_of_request, quarter_.value[1], quarter_dates),
                  (toordinal(time_of_request) % 7) + 1>>)

\* time_of_request and time_of_service: the date with each extracted time
CombinedRow(old_row, quarter_dates, d, request_time, service_time) ==
    NewRow(Timestamp(d[1], d[2], d[3], request_time.hour, request_time.minute, request_time.second),
           Timestamp(d[1], d[2], d[3], service_time.hour, service_time.minute, service_time.second),
           _determine_quarter(Timestamp(d[1], d[2], d[3], request_time.hour,
                                        request_time.minute, request_time.second),
                              quarter_dates),
           parse_course(old_row.course_name \o <<" ">> \o old_row.course_section, FALSE, {}),
           quarter_dates)

\* the row of a request whose date and times were read
ParsedRow(old_row, quarter_dates, date, request_time, service_time) ==
    IF Raised(date) THEN date
    ELSE IF Raised(request_time) THEN request_time
    ELSE IF Raised(service_time) THEN service_time
    ELSE CombinedRow(old_row, quarter_dates, date.value[1],
                     request_time.value[1], service_time.value[1])

build_new_tutor_request_row(old_row, quarter_dates) ==
    ParsedRow(old_row, quarter_dates,
              parse_date(old_row.Index, TRUE),
              _extract_time(old_row.time_of_request),
              _extract_time(old_row.time_of_service))

\* build_new_tutor_request_row of each row of the old frame, in its order
BuiltRows(old_df, quarter_dates) ==
    [i \in DOMAIN old_df |-> build_new_tutor_request_row(old_df[i], quarter_dates)]

\* the loop over the old frame: the first exception ends it, and the empty
\* rows are left out of new_rows
NewRows(built) ==
    LET raised == {i \in DOMAIN built : Raised(built[i])}
        NotEmpty(row) == row.value # <<>>
        kept == SelectSeq(built, NotEmpty)
    IN  IF raised # {} THEN built[CHOOSE i \in raised : \A j \in raised : i <= j]
        ELSE Return("list", [i \in DOMAIN kept |-> kept[i].value])

RECURSIVE SortedTimestamps(_)
SortedTimestamps(S) ==
    IF S = {} THEN <<>>
    ELSE LET first == CHOOSE x \in S : \A y \in S : TimestampLe(x, y)
         IN  <<first>> \o SortedTimestamps(S \ {first})

\* new_df.groupby(new_df.index).first() and sort_index: one row for each
\* time_of_request, the first in the frame, in ascending order
GroupedAndSorted(new_rows) ==
    LET index == SortedTimestamps({new_rows[i][1] : i \in DOMAIN new_rows})
    IN  [k \in DOMAIN index |->
            new_rows[CHOOSE i \in DOMAIN new_rows :
                        /\ new_rows[i][1] = index[k]
                        /\ \A j \in 1..(i - 1) : new_rows[j][1] # index[k]]]

\* new_df of the rows the loop collected
NewFrame(new_rows) ==
    IF Raised(new_rows) THEN new_rows
    ELSE Return("list", GroupedAndSorted(new_rows.value))

\* the rows written to the table tutor_requests
process_tutor_request_data(old_df, quarter_dates) ==
    NewFrame(NewRows(BuiltRows(old_df, quarter_dates)))

(***************************************************************************)
(* Quarter-dates tables of at most MaxRows rows with distinct names, whose *)
(* date ranges may overlap, and dates inside, outside and on the bounds.   *)
(***************************************************************************)
Midnight(y, m, d) == Timestamp(y, m, d, 0, 0, 0)

QuarterRows ==
    {[name |-> <<"S","u","m","m","e","r"," ","2","0","1","3">>, start_date |-> Midnight(2013, 6, 24), end_date |-> Midnight(2013, 9, 25)],
     [name |-> <<"F","a","l","l"," ","2","0","1","3">>, start_date |-> Midnight(2013, 9, 23), end_date |-> Midnight(2013, 12, 13)],
     [name |-> <<"W","i","n","t","e","r"," ","2","0","1","4">>, start_date |-> Midnight(2014, 1, 6), end_date |-> Midnight(2014, 3, 28)],
     [name |-> <<"S","p","r","i","n","g"," ","2","0","1","4">>, start_date |-> Midnight(2014, 4, 7), end_date |-> Midnight(2014, 6, 27)]}

QuarterTables ==
    {df \in UNION {[1..n -> QuarterRows] : n \in 0..MaxRows} :
        \A i, j \in DOMAIN df : df[i].name = df[j].name => i = j}

DateStrings ==
    {<<"2","0","1","3","-","0","9","-","2","3"," ","0","0",":","0","0",":","0","0">>, <<"2","0","1","3","-","0","9","-","2","5"," ","0","0",":","0","0",":","0","0">>, <<"2","0","1","3","-","0","9","-","2","5"," ","1","0",":","0","3",":","0","0">>, <<"2","0","1","3","-","1","2","-","1","3"," ","0","0",":","0","0",":","0","0">>, <<"2","0","1","3","-","1","2","-","1","3"," ","1","0",":","0","0",":","0","0">>, <<"2","0","1","6","-","1","0","-","0","4"," ","1","0",":","0","8",":","2","6">>, <<"y","e","s","t","e","r","d","a","y">>}

OldRows ==
    {[Index |-> i, time_of_request |-> r, time_of_service |-> v,
      course_name |-> c, course_section |-> <<"1">>] :
        i \in {<<"9","/","2","5","/","2","0","1","3">>, <<"9","/","2","3","/","2","0","1","3">>, <<"1","0","/","4","/","2","0","1","6">>, <<"1","/","6","/","2","0","1","4">>},
        r \in {<<"9","/","2","5","/","2","0","1","3"," ","1","0",":","0","3">>, <<"0","0",":","0","0">>},
        v \in {<<"1","1",":","0","5",":","3","2"," ","A","M">>},
        c \in {<<"C","H","E","M"," ","F","0","3","0","A">>, <<"b","a","s","k","e","t">>}}

OldFrames == UNION {[1..n -> OldRows] : n \in 1..2}

InitClassify ==
    /\ table = NoTable
    /\ db \in QuarterTables
    /\ \/ \E date_string \in DateStrings :
             call = [fn |-> "_determine_quarter_by_date", date_string |-> date_string]
       \/ \E date_string \in DateStrings :
             /\ Returned(cast_to_dt(date_string))
             /\ call = [fn |-> "_determine_quarter", date |-> cast_to_dt(date_string).value[1]]
       \/ \E old_row \in OldRows :
             call = [fn |-> "build_new_tutor_request_row", old_row |-> old_row]
       \/ \E old_df \in OldFrames :
             call = [fn |-> "process_tutor_request_data", old_df |-> old_df]
    /\ result = NoResult

DetermineQuarterByDate ==
    /\ Pending("_determine_quarter_by_date")
    /\ result' = _determine_quarter_by_date(call.date_string, db)
    /\ UNCHANGED <<table, db, call>>

DetermineQuarter ==
    /\ Pending("_determine_quarter")
    /\ result' = _determine_quarter(call.date, db)
    /\ UNCHANGED <<table, db, call>>

BuildNewTutorRequestRow ==
    /\ Pending("build_new_tutor_request_row")
    /\ result' = build_new_tutor_request_row(call.old_row, db)
    /\ UNCHANGED <<table, db, call>>

ProcessTutorRequestData ==
    /\ Pending("process_tutor_request_data")
    /\ result' = process_tutor_request_data(call.old_df, db)
    /\ UNCHANGED <<table, db, call>>

NextClassify ==
    \/ DetermineQuarterByDate
    \/ DetermineQuarter
    \/ BuildNewTutorRequestRow
    \/ ProcessTutorRequestData

SpecClassify == InitClassify /\ [][NextClassify]_vars

\* the first row, in the order of the table, that holds the date
FirstQuarterHolding(df, date) ==
    df[CHOOSE i \in RowsHolding(df, date) : \A j \in RowsHolding(df, date) : i <= j].name

\* the time_of_request of an old row whose date and times parse
RequestTimestamp(old_row) ==
    LET d == parse_date(old_row.Index, TRUE).value[1]
        t == _extract_time(old_row.time_of_request).value[1]
    IN  Timestamp(d[1], d[2], d[3], t.hour, t.minute, t.second)

RowParses(old_row) ==
    /\ Returned(parse_date(old_row.Index, TRUE))
    /\ Returned(_extract_time(old_row.time_of_request))
    /\ Returned(_extract_time(old_row.time_of_service))
    /\ Returned(parse_course(old_row.course_name \o <<" ">> \o old_row.course_section, FALSE, {}))

\* C25: the quarter of a date is the name of the first row of the
\* quarter-dates table with start_date <= date <= end_date; a date in no row
\* is a ValueError for _determine_quarter_by_date, and in the cleaning script
\* no quarter, an empty new row, and no row written for it.
C25_FirstQuarterHoldingDate ==
    /\ (Done /\ call.fn = "_determine_quarter_by_date"
             /\ Returned(cast_to_dt(call.date_string))) =>
          LET date == cast_to_dt(call.date_string).value[1]
          IN  IF RowsHolding(db, date) = {}
              THEN Raised(result) /\ result.exc = "ValueError"
              ELSE result = Return("scalar", <<FirstQuarterHolding(db, date)>>)
    /\ (Done /\ call.fn = "_determine_quarter") =>
          IF RowsHolding(db, call.date) = {}
          THEN result = Return("scalar", <<<<>>>>)
          ELSE result = Return("scalar", <<FirstQuarterHolding(db, call.date)>>)
    /\ (Done /\ call.fn = "build_new_tutor_request_row" /\ RowParses(call.old_row)) =>
          IF RowsHolding(db, RequestTimestamp(call.old_row)) = {}
          THEN result = Return("tuple", <<>>)
          ELSE /\ Returned(result)
               /\ result.value[4] = FirstQuarterHolding(db, RequestTimestamp(call.old_row))
    /\ (Done /\ call.fn = "process_tutor_request_data"
             /\ \A i \in DOMAIN call.old_df : RowParses(call.old_df[i])) =>
          /\ Returned(result)
          /\ {result.value[k][1] : k \in DOMAIN result.value}
                = {RequestTimestamp(call.old_df[i]) : i \in
                      {j \in DOMAIN call.old_df :
                          RowsHolding(db, RequestTimestamp(call.old_df[j])) # {}}}

(***************************************************************************)
(* _SCWrapper (interface.py of both packages).  A DataFrame is the record  *)
(* of its columns and its rows in index order; the wrapper holds           *)
(* _entire_df and data.  df_tools is the filtering module of               *)
(* stem_analytics.                                                         *)
(***************************************************************************)
DataFrame(columns, rows) == [kind |-> "DataFrame", columns |-> columns, rows |-> rows]

\* the value of a function whose body is 'pass'
PyNone == [kind |-> "None", columns |-> {}, rows |-> <<>>]

\* sc_data[sc_data[column].isin(values)]
IsIn(sc_data, column, values) ==
    IF sc_data.kind = "None"
    THEN Raise("TypeError", "'NoneType' object is not subscriptable")
    ELSE IF column \notin sc_data.columns
    THEN Raise("KeyError", column)
    ELSE LET Keep(row) == \E i \in DOMAIN values : row[column] = values[i]
         IN  Return("DataFrame", <<DataFrame(sc_data.columns, SelectSeq(sc_data.rows, Keep))>>)

\* sc_data.ix[start:end] on the sorted datetime index, both ends included
IxSlice(sc_data, start, end) ==
    IF sc_data.kind = "None"
    THEN Raise("AttributeError", "'NoneType' object has no attribute 'ix'")
    ELSE LET Keep(row) == /\ TimestampLe(cast_to_dt(start).value[1], row.time_of_request)
                          /\ TimestampLe(row.time_of_request, cast_to_dt(end).value[1])
         IN  Return("DataFrame", <<DataFrame(sc_data.columns, SelectSeq(sc_data.rows, Keep))>>)

df_tools_filter_by_year(sc_data, years) == Return("None", <<PyNone>>)

df_tools_filter_by_course(sc_data, subject, name, section) == Return("None", <<PyNone>>)

df_tools_filter_by_quarter(sc_data, quarters) == IsIn(sc_data, "quarter", quarters)

df_tools_filter_by_week_in_quarter(sc_data, weeks_in_quarter) ==
    IsIn(sc_data, "interval_option", weeks_in_quarter)

df_tools_filter_by_day(sc_data, days) == IsIn(sc_data, "day", days)

\* the arguments of a call f(*args), each a string, a sequence or another object
extract_parsing_args(args) ==
    IF Len(args) # 1
    THEN Return("list", <<SeqInput([i \in DOMAIN args |->
                             IF args[i].type = "str" THEN StrItem(args[i].text) ELSE IntItem])>>)
    ELSE IF args[1].type \in {"str", "seq"} THEN Return("scalar", <<args[1]>>)
    ELSE Raise("ValueError", "Given arguments cannot be processed.")

\* self.data = filtered; return self: the outcome and the wrapper after the call
Assign(self, filtered) ==
    IF Raised(filtered) THEN [result |-> filtered, self |-> self]
    ELSE [result |-> Return("self", <<>>), self |-> [self EXCEPT !.data = filtered.value[1]]]

SCWrapper_init(df) == [_entire_df |-> df, data |-> df]

reset_data(self) ==
    [result |-> Return("self", <<>>), self |-> [self EXCEPT !.data = self._entire_df]]

\* start, end = parse_datetimes(date_range): a result of another length than
\* two does not unpack
stem_analytics_filter_by_date(self, date_range) ==
    LET parsed == parse_datetimes(date_range, FALSE)
    IN  IF Raised(parsed) THEN Assign(self, parsed)
        ELSE IF Len(parsed.value) # 2
        THEN Assign(self, Raise("ValueError", "values to unpack"))
        ELSE Assign(self, IxSlice(self.data, parsed.value[1], parsed.value[2]))

stem_analytics_filter_by_course(self, subject, name, section) ==
    Assign(self, df_tools_filter_by_course(self.data, subject, name, section))

stem_analytics_filter_by_year(self, years) ==
    LET extracted_args == extract_parsing_args(years)
        year_names == parse_years(extracted_args.value[1])
    IN  IF Raised(extracted_args) THEN Assign(self, extracted_args)
        ELSE IF Raised(year_names) THEN Assign(self, year_names)
        ELSE Assign(self, df_tools_filter_by_year(self.data, year_names.value))

stem_analytics_filter_by_quarter(self, quarters) ==
    LET extracted_args == extract_parsing_args(quarters)
        qtr_names == parse_quarters(extracted_args.value[1], TRUE)
    IN  IF Raised(extracted_args) THEN Assign(self, extracted_args)
        ELSE IF Raised(qtr_names) THEN Assign(self, qtr_names)
        ELSE Assign(self, df_tools_filter_by_quarter(self.data, qtr_names.value))

stem_analytics_filter_by_week_in_quarter(self, weeks_in_quarter) ==
    LET extracted_args == extract_parsing_args(weeks_in_quarter)
        week_in_qtr_names == parse_weeks_in_quarter(extracted_args.value[1], FALSE)
    IN  IF Raised(extracted_args) THEN Assign(self, extracted_args)
        ELSE IF Raised(week_in_qtr_names) THEN Assign(self, week_in_qtr_names)
        ELSE Assign(self, df_tools_filter_by_week_in_quarter(self.data, week_in_qtr_names.value))

stem_analytics_filter_by_day(self, days) ==
    LET extracted_args == extract_parsing_args(days)
        day_names == parse_days(extracted_args.value[1])
    IN  IF Raised(extracted_args) THEN Assign(self, extracted_args)
        ELSE IF Raised(day_names) THEN Assign(self, day_names)
        ELSE Assign(self, df_tools_filter_by_day(self.data, day_names.value))

\* prs.ParsingError and AliasTable.keys do not exist: the raise statement and
\* the arguments of parse_user_input both end in AttributeError
filter_by_quarter(self, quarters, with_years) ==
    LET parts == str_partition(quarters.text, Dash)
    IN  IF /\ quarters.type = "str"
           /\ str_contains(quarters.text, Dash)
           /\ (Len(str_split(parts[1])) # 2 \/ Len(str_split(parts[2])) # 2)
        THEN Assign(self, Raise("AttributeError", "module has no attribute 'ParsingError'"))
        ELSE Assign(self, Raise("AttributeError", "'AliasTable' object has no attribute 'keys'"))

filter_by_week_in_quarter(self, weeks) ==
    Assign(self, Raise("AttributeError", "'AliasTable' object has no attribute 'keys'"))

filter_by_day(self, days) ==
    Assign(self, Raise("AttributeError", "'AliasTable' object has no attribute 'keys'"))

(***************************************************************************)
(* A wrapper of either package on a frame of three requests, and calls of  *)
(* its methods in any order.  db holds the frame handed to __init__ and    *)
(* the wrapper; call and result are the latest call and its outcome.       *)
(***************************************************************************)
Request(time_of_request, quarter_, day, week, week_column) ==
    [c \in {"time_of_request", "quarter", "day", week_column} |->
        CASE c = "time_of_request" -> time_of_request
          [] c = "quarter" -> quarter_
          [] c = "day" -> day
          [] OTHER -> week]

RequestFrame(week_column) ==
    DataFrame({"time_of_request", "quarter", "day", week_column},
              <<Request(Timestamp(2013, 9, 25, 10, 3, 0), <<"F","a","l","l"," ","2","0","1","3">>, <<"W","e","d","n","e","s","d","a","y">>, <<"1">>, week_column),
                Request(Timestamp(2013, 12, 13, 9, 0, 0), <<"F","a","l","l"," ","2","0","1","3">>, <<"F","r","i","d","a","y">>, <<"1","2">>, week_column),
                Request(Timestamp(2014, 1, 6, 9, 45, 0), <<"W","i","n","t","e","r"," ","2","0","1","4">>, <<"M","o","n","d","a","y">>, <<"1">>, week_column)>>)

ArgTuples(texts) ==
    {<<>>, <<OtherInput>>}
        \cup {<<StrInput(t)>> : t \in texts}
        \cup {<<SeqInput(<<StrItem(t)>>)>> : t \in texts}
        \cup {<<StrInput(t), StrInput(u)>> : t, u \in texts}

WrapperDateRanges == {StrInput(t) : t \in {<<"2","0","1","3","/","0","9","/","2","5"," ","-"," ","2","0","1","3","/","1","2","/","3","1">>, <<"2","0","1","3","/","1","2","/","3","1"," ","-"," ","2","0","1","3","/","0","9","/","2","5">>, <<"2","0","1","3","/","0","9","/","2","5">>, <<"2","0","1","3","/","0","9","/","2","5",","," ","2","0","1","4","/","0","1","/","3","1">>, <<"x"," ","-"," ","y">>}}

WrapperYears == ArgTuples({<<"2","0","1","3">>, <<"x">>})

WrapperQuarters == ArgTuples({<<"f","a","l","l"," ","2","0","1","3">>, <<"f"," ","1","3"," ","-"," ","w"," ","1","4">>, <<"f"," ","-"," ","w"," ","1","4">>, <<"x">>})

WrapperWeeks == ArgTuples({<<"1">>, <<"1"," ","-"," ","6">>, <<"x">>})

WrapperDays == ArgTuples({<<"m">>, <<"x">>})

InitWrapper ==
    /\ table = NoTable
    /\ \E package \in {"stem_analytics", "stem_center_analytics"},
          week_column \in {"week_in_quarter", "interval_option"} :
          /\ db = [package |-> package, df |-> RequestFrame(week_column),
                   self |-> SCWrapper_init(RequestFrame(week_column))]
          /\ call = [fn |-> "__init__", package |-> package]
    /\ result = Return("self", <<>>)

Called(fn, args, outcome) ==
    /\ call' = [fn |-> fn, args |-> args]
    /\ result' = outcome.result
    /\ db' = [db EXCEPT !.self = outcome.self]
    /\ UNCHANGED table

ResetData ==
    /\ db.package \in {"stem_analytics", "stem_center_analytics"}
    /\ Called("reset_data", <<>>, reset_data(db.self))

StemAnalyticsFilterByDate ==
    /\ db.package = "stem_analytics"
    /\ \E date_range \in WrapperDateRanges :
          Called("filter_by_date", date_range, stem_analytics_filter_by_date(db.self, date_range))

StemAnalyticsFilterByCourse ==
    /\ db.package = "stem_analytics"
    /\ \E subject \in {<<<<"m","a","t","h">>>>} :
          Called("filter_by_course", subject,
                 stem_analytics_filter_by_course(db.self, subject, <<<<"1","a">>>>, <<<<"1">>>>))

StemAnalyticsFilterByYear ==
    /\ db.package = "stem_analytics"
    /\ \E years \in WrapperYears :
          Called("filter_by_year", years, stem_analytics_filter_by_year(db.self, years))

StemAnalyticsFilterByQuarter ==
    /\ db.package = "stem_analytics"
    /\ \E quarters \in WrapperQuarters :
          Called("filter_by_quarter", quarters, stem_analytics_filter_by_quarter(db.self, quarters))

StemAnalyticsFilterByWeekInQuarter ==
    /\ db.package = "stem_analytics"
    /\ \E weeks \in WrapperWeeks :
          Called("filter_by_week_in_quarter", weeks,
                 stem_analytics_filter_by_week_in_quarter(db.self, weeks))

StemAnalyticsFilterByDay ==
    /\ db.package = "stem_analytics"
    /\ \E days \in WrapperDays :
          Called("filter_by_day", days, stem_analytics_filter_by_day(db.self, days))

FilterByQuarter ==
    /\ db.package = "stem_center_analytics"
    /\ \E quarters \in {StrInput(t) : t \in {<<"f","a","l","l"," ","2","0","1","3">>, <<"f"," ","1","3"," ","-"," ","w"," ","1","4">>, <<"f"," ","-"," ","w"," ","1","4">>, <<"x">>}}, with_years \in BOOLEAN :
          Called("filter_by_quarter", quarters, filter_by_quarter(db.self, quarters, with_years))

FilterByWeekInQuarter ==
    /\ db.package = "stem_center_analytics"
    /\ \E weeks \in {StrInput(t) : t \in {<<"1">>, <<"1"," ","-"," ","6">>, <<"x">>}} :
          Called("filter_by_week_in_quarter", weeks, filter_by_week_in_quarter(db.self, weeks))

FilterByDay ==
    /\ db.package = "stem_center_analytics"
    /\ \E days \in {StrInput(t) : t \in {<<"m">>, <<"x">>}} :
          Called("filter_by_day", days, filter_by_day(db.self, days))

NextWrapper ==
    \/ ResetData
    \/ StemAnalyticsFilterByDate
    \/ StemAnalyticsFilterByCourse
    \/ StemAnalyticsFilterByYear
    \/ StemAnalyticsFilterByQuarter
    \/ StemAnalyticsFilterByWeekInQuarter
    \/ StemAnalyticsFilterByDay
    \/ FilterByQuarter
    \/ FilterByWeekInQuarter
    \/ FilterByDay

SpecWrapper == InitWrapper /\ [][NextWrapper]_vars

\* all_data: a copy of _entire_df
all_data(self) == self._entire_df

\* data is a DataFrame whose rows are rows of all_data
HoldsRowsOfAllData(self) ==
    /\ self.data.kind = "DataFrame"
    /\ \A i \in DOMAIN self.data.rows :
          \E j \in DOMAIN all_data(self).rows : self.data.rows[i] = all_data(self).rows[j]

\* C26: after any calls of the filters and of reset_data, all_data equals the
\* DataFrame the wrapper was constructed with and data holds rows of all_data
\* only; reset_data makes data equal to all_data, and a call that fails leaves
\* data unchanged.
C26_WrapperKeepsAllData ==
    /\ [](all_data(db.self) = db.df /\ HoldsRowsOfAllData(db.self))
    /\ [][/\ call'.fn = "reset_data" => db'.self.data = all_data(db'.self)
          /\ Raised(result') => db'.self.data = db.self.data]_vars

(***************************************************************************)
(* The course parsers statement by statement: the locals of the call are   *)
(* fields of call, pc is the statement about to run, loaded tells whether  *)
(* the call has read the records from the warehouse.  parse_course reads   *)
(* them inside the call; in stem_analytics SET_OF_ALL_COURSES is a global  *)
(* read when the module is imported.                                       *)
(***************************************************************************)
StepCourseTexts == {<<"m","a","t","h"," ","1","a"," ","1">>, <<"m","a","t","h">>, <<"b","a","s","k","e","t"," ","1","a">>, <<"c","s"," ","1","c"," ","1","w">>, <<"p","h","y","s"," ","4","a">>, <<"c","h","e","m"," ","0","1","A"," ","0","2">>}

InitCourseSteps ==
    /\ table = NoTable
    /\ db \in Databases
    /\ \/ \E t \in StepCourseTexts, check_records \in BOOLEAN :
             call = [fn |-> "parse_course", course_name |-> t, check_records |-> check_records,
                     as_tuple |-> FALSE, pc |-> "segment", subject |-> <<>>,
                     loaded |-> FALSE, set_of_all_courses |-> {}, tested |-> <<>>]
       \/ \E t \in StepCourseTexts, as_tuple \in BOOLEAN :
             call = [fn |-> "parse_full_course_name", course_name |-> t, check_records |-> TRUE,
                     as_tuple |-> as_tuple, pc |-> "segment", subject |-> <<>>,
                     loaded |-> FALSE,
                     set_of_all_courses |-> get_set_of_all_courses_by_columns(db),
                     tested |-> <<>>]
    /\ result = NoResult

At(pc) == result = NoResult /\ call.pc = pc

\* the segmentation and the stripping; without check_records the subject is
\* looked up and the name returned
SegmentCourse ==
    /\ At("segment")
    /\ LET c == CourseComponents(call.course_name)
           found == lookup_by_alias(ALL_SUBJECTS, c.subject, TRUE)
       IN  IF call.fn = "parse_course" /\ ~call.check_records
           THEN /\ result' = IF Raised(found) THEN found
                             ELSE Return("scalar", <<JoinCourse(found.value[1], c.number, c.section)>>)
                /\ call' = [call EXCEPT !.subject = c.subject, !.pc = "done"]
           ELSE /\ result' = result
                /\ call' = [call EXCEPT !.subject = c.subject,
                                        !.pc = IF call.fn = "parse_course" THEN "load" ELSE "resolve"]
    /\ UNCHANGED <<table, db>>

\* set_of_all_courses = warehouse.get_set_of_all_courses()
LoadRecords ==
    /\ At("load")
    /\ call' = [call EXCEPT !.loaded = TRUE,
                            !.set_of_all_courses = get_set_of_all_courses(db),
                            !.pc = "resolve"]
    /\ UNCHANGED <<table, db, result>>

\* subject = ALL_SUBJECTS.lookup_by_alias(subject) under the try
ResolveSubject ==
    /\ At("resolve")
    /\ LET found == IF call.fn = "parse_course"
                    THEN lookup_by_alias(ALL_SUBJECTS, call.subject, TRUE)
                    ELSE map_to_token(course_subject_types_all, call.subject, TRUE)
       IN  IF Raised(found)
           THEN /\ result' = Raise(IF call.fn = "parse_course" THEN "InvalidInputError"
                                   ELSE "ParsingError", "subject is not on record")
                /\ call' = [call EXCEPT !.pc = "done"]
           ELSE /\ result' = result
                /\ call' = [call EXCEPT !.subject = found.value[1], !.pc = "test"]
    /\ UNCHANGED <<table, db>>

\* if subject not in set_of_all_courses: raise
TestSubject ==
    /\ At("test")
    /\ IF call.subject \in call.set_of_all_courses
       THEN /\ result' = result
            /\ call' = [call EXCEPT !.tested = Append(@, call.subject), !.pc = "check"]
       ELSE /\ result' = IF call.fn = "parse_course"
                         THEN Raise("TypeError", "__init__() missing 2 required positional arguments")
                         ELSE Raise("ParsingError", "subject is not on record")
            /\ call' = [call EXCEPT !.tested = Append(@, call.subject), !.pc = "done"]
    /\ UNCHANGED <<table, db>>

\* the tests of the full name, the name without section and the subject
CheckCourse ==
    /\ At("check")
    /\ LET c == CourseComponents(call.course_name)
       IN  /\ result' = CheckRecords(call.subject, c.number, c.section, call.set_of_all_courses,
                                     IF call.fn = "parse_course" THEN "InvalidInputError"
                                     ELSE "ParsingError", call.as_tuple)
           /\ call' = [call EXCEPT !.tested = Append(@, call.subject), !.pc = "done"]
    /\ UNCHANGED <<table, db>>

NextCourseSteps ==
    \/ SegmentCourse
    \/ LoadRecords
    \/ ResolveSubject
    \/ TestSubject
    \/ CheckCourse

SpecCourseSteps == InitCourseSteps /\ [][NextCourseSteps]_vars

\* the statements give the result of the parser
StepsAgree ==
    Done => result = IF call.fn = "parse_course"
                     THEN parse_course(call.course_name, call.check_records, db)
                     ELSE parse_full_course_name(call.course_name, call.as_tuple, db)

SubjectResolves ==
    IF call.fn = "parse_course"
    THEN Returned(lookup_by_alias(ALL_SUBJECTS, CourseComponents(call.course_name).subject, TRUE))
    ELSE Returned(map_to_token(course_subject_types_all,
                               CourseComponents(call.course_name).subject, TRUE))

SubjectNames ==
    IF call.fn = "parse_course" THEN ALL_SUBJECTS.names ELSE course_subject_types_all.names

\* C27: with check_records the subject is resolved before the records are
\* touched: a call whose subject does not resolve fails with the parsing
\* error while the records are neither loaded nor tested, and every
\* membership test is made with a name of the subject table.
C27_SubjectResolvedBeforeRecords ==
    (call.check_records /\ "pc" \in DOMAIN call) =>
        /\ (Done /\ ~SubjectResolves) =>
              IsParsingError(result) /\ ~call.loaded /\ call.tested = <<>>
        /\ \A i \in DOMAIN call.tested :
              \E k \in DOMAIN SubjectNames : call.tested[i] = SubjectNames[k]

(***************************************************************************)
(* Dashed quarters whose sides differ in their number of components.       *)
(***************************************************************************)
ComponentsError ==
    /\ IsParsingError(result)
    /\ result.msg = "Quarters on each side of dash must have exact same number of components"

\* the two sides of a dashed string have different numbers of components
SidesDiffer(text) ==
    LET parts == str_partition(text, Dash)
    IN  str_contains(text, Dash) /\ Len(str_split(parts[1])) # Len(str_split(parts[2]))

\* C28: parse_quarters rejects a dashed string whose sides have different
\* numbers of space separated components with the parsing error that asks
\* for the same number of components, with and without years.
C28_UnequalSidesRejected ==
    (/\ Done
     /\ call.fn = "parse_quarters"
     /\ call.quarters.type = "str"
     /\ SidesDiffer(call.quarters.text)) => ComponentsError

(***************************************************************************)
(* The diagnostics of a course checked against the records.                *)
(***************************************************************************)
GenericDiagnostic == result.msg = "course name requires a recognizable subject"

ChecksRecords ==
    \/ call.fn = "parse_course" /\ call.check_records
    \/ call.fn = "parse_full_course_name"

\* C29: a course parser that checks the records never fails with the generic
\* diagnostic: once the subject is resolved and on record, a failure is the
\* missing section or the missing course number diagnostic.
C29_GenericDiagnosticUnreachable ==
    (Done /\ ChecksRecords) =>
        /\ ~GenericDiagnostic
        /\ (Raised(result) /\ ResolvedSubject # <<>>
               /\ ResolvedSubject \in Records) =>
              result.msg \in {"course has no section on record",
                              "subject has no course number on record"}

C29_Witness ==
    /\ Done
    /\ ChecksRecords
    /\ ResolvedSubject # <<>>
    /\ ResolvedSubject \in Records
    /\ result.msg = "subject has no course number on record"

(***************************************************************************)
(* parse_course applied to its own result (check_records false).           *)
(***************************************************************************)
RepeatedSubjects == {<<"m","a","t","h">>, <<"c","s">>, <<"b","a","s","k","e","t">>}

RepeatedNumbers ==
    {zeros \o body \o dots :
        zeros \in {<<>>, <<"0">>, <<"0","0">>, <<"0","0","0">>},
        body \in {<<"1","a">>, <<"1","0">>},
        dots \in {<<>>, <<".">>, <<".",".">>}}

RepeatedSections ==
    {<<>>} \cup {zeros \o body :
                    zeros \in {<<>>, <<"0">>, <<"0","0">>},
                    body \in {<<"1">>, <<"1","w">>, <<"o","1">>}}

RepeatedCourseTexts ==
    {subject \o <<" ">> \o number \o (IF section = <<>> THEN <<>> ELSE <<" ">> \o section) :
        subject \in RepeatedSubjects, number \in RepeatedNumbers, section \in RepeatedSections}

InitCourseTwice ==
    /\ table = NoTable
    /\ db = {}
    /\ \E t \in RepeatedCourseTexts :
          call = [fn |-> "parse_course", course_name |-> t, check_records |-> FALSE,
                  pc |-> "first", first |-> NoResult]
    /\ result = NoResult

\* y = parse_course(x)
FirstPass ==
    /\ At("first")
    /\ LET first == parse_course(call.course_name, FALSE, db)
       IN  /\ call' = [call EXCEPT !.first = first,
                                   !.pc = IF Raised(first) THEN "done" ELSE "second"]
           /\ result' = IF Raised(first) THEN first ELSE result
    /\ UNCHANGED <<table, db>>

\* parse_course(y)
SecondPass ==
    /\ At("second")
    /\ result' = parse_course(call.first.value[1], FALSE, db)
    /\ call' = [call EXCEPT !.pc = "done"]
    /\ UNCHANGED <<table, db>>

NextCourseTwice == FirstPass \/ SecondPass

SpecCourseTwice == InitCourseTwice /\ [][NextCourseTwice]_vars

\* the number and the section left by one pass of the anomaly stripping
StrippedOnce == CourseComponents(call.course_name)

\* C30: parse_course without the records is idempotent on what it accepts:
\* parsing its own result gives the same result, the number left by one pass
\* has no leading zero and no trailing dot and the section no leading zero.
C30_ParseCourseIdempotent ==
    (Returned(call.first)) =>
        /\ Done => result = call.first
        /\ StrippedOnce.number # <<>> =>
              /\ Head(StrippedOnce.number) # "0"
              /\ ~str_endswith(StrippedOnce.number, <<".">>)
        /\ StrippedOnce.section # <<>> => Head(StrippedOnce.section) # "0"

====
